---- MODULE Spec2Model ----
(***************************************************************************)
(* Model of the email validation service: the Redis-backed circuit         *)
(* breaker (app/services/circuit_breaker.py), the validation pipeline      *)
(* (app/services/validator.py), the DNS-only validator                     *)
(* (app/services/dns_validator.py), the batch splitter and progress        *)
(* tracker (app/utils/batch_utils.py), the queue worker (app/worker.py)    *)
(* and the caches (app/services/cache_service.py, backend script).         *)
(*                                                                         *)
(* Each subsystem has its own specification over the shared variables:     *)
(*   SpecBreaker   clients of the circuit breaker, one Redis command a step*)
(*   SpecBreakerFair  SpecBreaker with callers that run on to their return *)
(*   SpecBatch     batch submission, the queue, the workers and the status *)
(*                 readers; one email validation is abstracted to "returns *)
(*                 a result" or "raises"                                   *)
(*   SpecBatchFair batch submission and workers that are scheduled fairly  *)
(*   SpecSplit     split_into_batches applied to lists of every length     *)
(*   SpecPipeline  one validation at a time, stage by stage, started by a  *)
(*                 route or by a worker chunk, while the breaker is opened *)
(*                 and reset                                               *)
(*   SpecStages    validate_email call after call on a set of addresses,   *)
(*                 with every reply of the SMTP server                     *)
(*   SpecCache     the cache operations of CacheService and of             *)
(*                 backend/validate_emails.py while Redis comes and goes   *)
(*   SpecDispatch  one validate_batch request, publish by publish, with    *)
(*                 every combination of flags                              *)
(*   SpecExpiry    the breaker with its readers and with the clock of the  *)
(*                 key store that expires the keys                         *)
(*   SpecChunk     one batch in one worker process, validation by          *)
(*                 validation, with the SMTP semaphore                     *)
(***************************************************************************)
EXTENDS Integers, Sequences, FiniteSets, TLC

(***************************************************************************)
(* Bounds of the model.                                                    *)
(***************************************************************************)
\* number of client processes that call the circuit breaker concurrently
NumProcs == 2
\* the seconds that pass in one step of the clock of the key store
TickSeconds == 1800
\* record_dns_fallback calls
MaxFallbacks == 1
\* the largest WORKER_BATCH_SIZE a deployment sets
MaxChunkSize == 6
\* the chunks of the batch
NumChunks == 2
\* record_smtp_timeout calls are started only while fewer than this many
\* timeouts have been committed in total
MaxTimeouts == 11

\* messages put on the way in one run: validate_batch requests and messages of
\* other publishers together
MaxSubmissions == 1
\* largest number of emails in one validate_batch request
MaxRequestEmails == 31
\* largest number of emails in a message of another publisher
MaxForeignEmails == 6
\* calls of get_multi_batch_status in one run
MaxMultiCalls == 1
\* exceptions raised by the shared store or the breaker access in one run
MaxFaults == 1
\* number of worker processes
NumWorkers == 2
\* longest email list given to split_into_batches
MaxSplitLen == 1205

(***************************************************************************)
(* Program constants.                                                      *)
(***************************************************************************)
\* CircuitBreaker.failure_threshold
failure_threshold == 10
\* CircuitBreaker.key_expiry, in seconds
key_expiry == 3600
\* settings.WORKER_BATCH_SIZE
WORKER_BATCH_SIZE == 5
\* settings.MAX_CONCURRENT_VALIDATIONS
MAX_CONCURRENT_VALIDATIONS == 5
\* settings.SMALL_BATCH_THRESHOLD
SMALL_BATCH_THRESHOLD == 1

Procs == 1 .. NumProcs
Workers == 1 .. NumWorkers

\* uuid4 values handed out in one run: at most a request id and a batch id per
\* batch for each submission
MaxIds == MaxSubmissions * (1 + ((MaxRequestEmails + 29) \div 30))
Ids == 1 .. MaxIds

\* a Redis key that does not exist (GET returns None)
NoKey == "none"
\* smtp_timeout_failures when the key does not exist
NoCount == -1

VARIABLES
    \* ---- Redis keys of the circuit breaker
    smtp_timeout_failures,           \* failures_key: NoCount or the stored count
    smtp_circuit_status,             \* status_key: NoKey, "closed" or "open"
    smtp_last_timeout,               \* last_timeout_key: 0 (absent) or the stamp of the last commit
    smtp_total_timeouts_historical,  \* total_timeouts_key (INCR counter)
    smtp_total_dns_fallbacks_historical, \* total_dns_fallbacks_key (INCR counter)
    ttl_failures,      \* seconds until failures_key expires; 0 when absent
    ttl_status,        \* seconds until status_key expires; 0 when absent
    ttl_last_timeout,  \* seconds until last_timeout_key expires; 0 when absent
    cb_ret,            \* what the latest is_open or get_metrics call returned
    \* ---- settings and deployment
    DNS_ONLY_MODE_ENABLED,
    validator_has_breaker, \* the worker's validator carries a circuit_breaker attribute
    \* ---- one record_smtp_timeout call per client process
    rec_pc,            \* "idle", "watched", "got_failures", "got_status", "retry"
    current_failures,  \* local current_failures
    current_status,    \* local current_status
    watch_dirty,       \* a watched key was written since this client's WATCH
    \* ---- RabbitMQ
    queue,             \* settings.RABBITMQ_QUEUE: messages not yet delivered
    dlq,               \* delivery tags of the messages rejected with requeue=False
    acked,             \* delivery tags of the messages acknowledged
    next_uuid,         \* the next fresh uuid4
    n_requests,        \* validate_batch requests accepted so far
    n_foreign,         \* messages published by other publishers so far
    \* ---- Redis keys of the batches
    validation_results, \* validation_results:{batch_id}
    multi_batch,        \* multi_batch:{request_id}
    batch_parent,       \* batch_parent:{batch_id}; 0 when absent
    \* ---- validate_batch (one request handler)
    sub_pc,            \* "idle", "queueing", "tracking", "indexing"
    sub_batches,       \* email_batches
    sub_batch_ids,     \* batch_ids
    sub_request_id,    \* request_id
    sub_flags,         \* the validation flags of the request
    sub_k,             \* batches published / parent indexes written so far
    sub_resp,          \* the answer to the request: "none", "ok", "error" (HTTP 500)
    \* ---- EmailValidationWorker.process_message, one per worker
    w_pc,              \* "idle", "chunk", "gather", "store", "final", "finish"
    w_msg,             \* the message being processed
    w_i,               \* index of the current chunk
    all_results,       \* all_results
    circuit_open,      \* circuit_open of the current chunk
    \* ---- get_multi_batch_status (one caller)
    ms_pc,             \* "idle", "children"
    ms_tracking,       \* tracking_data
    ms_idx,            \* position in batch_ids
    ms_all_complete,   \* all_complete
    ms_total_processed, \* total_processed
    ms_batch_statuses, \* batch_statuses
    ms_resp,           \* the value returned
    n_multi_calls,     \* calls of get_multi_batch_status so far
    \* ---- history (not program state)
    h_commits,         \* commits of record_smtp_timeout since the last reset; -1 after open_circuit
    h_retried,         \* a WatchError was raised since the last reset
    h_faults,          \* exceptions injected so far
    h_dropped,         \* per batch id: emails handled and left out of the results
    h_chunks_done,     \* per batch id: chunks handled
    h_child_complete,  \* per child read by get_multi_batch_status: it had a stored complete status
    h_req,             \* the validate_batch request: number of emails and flags
    h_published,       \* the messages validate_batch has published, in order
    h_malformed,       \* delivery tags of the messages published with a malformed body
    h_deliveries,      \* per delivery tag: times the message was handed to a worker
    h_validated,       \* per delivery tag: the emails handed to validate_email
    h_twice,           \* an email of a message was handed to validate_email a second time
    h_raised,          \* delivery tags of the messages whose processing raised
    \* ---- one call of split_into_batches
    split_pc,          \* "input", "done"
    split_emails,      \* emails
    split_batches,     \* the value returned
    \* ---- one validation at a time: EmailValidator.validate_email or DNSValidator.validate
    v_pc,              \* "idle", the stage reached, "done"
    v_caller,          \* "direct" (a route), "worker" (a chunk of process_emails), "dns"
    v_flags,           \* check_mx, check_smtp, ... as passed to validate_email
    v_mx_records,      \* mx_records is not empty
    v_result,          \* result
    v_email,           \* email
    h_smtp_ran,        \* the SMTP stage of this validation issued its connect
    h_stopped,         \* a stage returned the result before the final stage
    h_trace,           \* the stages of this validation that did their work, in order
    h_rcpt,            \* the reply to RCPT TO for the address itself; "" when none
    h_synth,           \* the reply to RCPT TO for the made-up address; "" when none
    h_probed,          \* the domains for which a catch-all probe got its reply
    h_repeat,          \* this validation has the email and flags of the one before it
    \* ---- the result caches: CacheService (the service) and the local/Redis cache
    \*      of backend/validate_emails.py
    c_program,         \* which of the two programs runs: "service" or "backend"
    c_store,           \* the Redis keys of the caches: value, or NoKey
    c_server,          \* the Redis server answers: "up" or "down"
    c_redis,           \* CacheService.redis is a client (not None)
    c_enabled,         \* the cache kinds whose settings.ENABLE_*_CACHE is true
    c_pc,              \* "idle", "ensure", "reping", "command", "returned", "raised"
    c_op,              \* the cache operation in progress
    c_ret,             \* the value it returns
    REDIS_AVAILABLE,   \* REDIS_AVAILABLE of validate_emails.py
    local_cache,       \* local_cache['email'][email]: a result, or NoKey
    h_c_failed,        \* where the store failed during this operation; "" when it did not
    \* ---- one batch in one worker process, validation by validation
    chunk_size,        \* settings.WORKER_BATCH_SIZE of the deployment
    ck_catch_all,      \* validation_flags.get('check_catch_all', True) of the message
    ck_pc,             \* process_emails: "begin", "gather", "store", "final"
    ck_i,              \* the chunk of the loop, from 1
    use_smtp,          \* use_smtp of the chunk
    ck_stored,         \* the chunks whose progress snapshot was stored
    t_pc,              \* per validation of the chunk: "idle", "start", "verify",
                       \* "after_smtp", "catch_all", "done"
    smtp_semaphore     \* free permits of EmailValidator._smtp_semaphore

settingsVars == << DNS_ONLY_MODE_ENABLED, validator_has_breaker >>

expiryVars == << ttl_failures, ttl_status, ttl_last_timeout >>
readVars == << smtp_total_dns_fallbacks_historical, cb_ret >>

breakerVars == << smtp_timeout_failures, smtp_circuit_status, smtp_last_timeout,
                  smtp_total_timeouts_historical, expiryVars, readVars,
                  settingsVars, rec_pc,
                  current_failures, current_status, watch_dirty, h_commits, h_retried >>

queueVars == << queue, dlq, acked, next_uuid, n_requests, n_foreign >>
storeVars == << validation_results, multi_batch, batch_parent >>
submitVars == << sub_pc, sub_batches, sub_batch_ids, sub_request_id, sub_flags, sub_k,
                 sub_resp >>
workerVars == << w_pc, w_msg, w_i, all_results, circuit_open >>
multiVars == << ms_pc, ms_tracking, ms_idx, ms_all_complete, ms_total_processed,
                ms_batch_statuses, ms_resp, n_multi_calls >>
batchHist == << h_faults, h_dropped, h_chunks_done, h_child_complete >>
dispatchHist == << h_req, h_published, h_malformed, h_deliveries, h_validated,
                  h_twice, h_raised >>
batchVars == << queueVars, storeVars, submitVars, workerVars, multiVars,
                batchHist, dispatchHist >>

splitVars == << split_pc, split_emails, split_batches >>
pipeVars == << v_pc, v_caller, v_flags, v_mx_records, v_result, v_email, h_smtp_ran,
               h_stopped, h_trace, h_rcpt, h_synth, h_probed, h_repeat >>
cacheVars == << c_program, c_store, c_server, c_redis, c_enabled, c_pc, c_op, c_ret,
                REDIS_AVAILABLE, local_cache, h_c_failed >>
chunkVars == << chunk_size, ck_catch_all, ck_pc, ck_i, use_smtp, ck_stored, t_pc,
                smtp_semaphore >>
otherVars == << splitVars, pipeVars, cacheVars, chunkVars >>

vars == << breakerVars, batchVars, otherVars >>

(***************************************************************************)
(* Circuit breaker: app/services/circuit_breaker.py                        *)
(***************************************************************************)

\* int(pipe.get(self.failures_key) or 0)
IntOrZero(v) == IF v = NoCount THEN 0 ELSE v

\* CircuitBreaker.is_open
is_open == DNS_ONLY_MODE_ENABLED \/ smtp_circuit_status = "open"

\* get_metrics()["status"]: status if status else "closed"
MetricsStatus == IF smtp_circuit_status = NoKey THEN "closed" ELSE smtp_circuit_status

\* get_metrics()["consecutive_smtp_timeouts"]
MetricsConsecutive == IntOrZero(smtp_timeout_failures)

\* A write to a watched key makes the EXEC of every other watching client fail.
\* (p is the writer; a writer outside Procs is given as 0)
Touch(p) ==
    [q \in Procs |-> IF q # p /\ rec_pc[q] \notin { "idle", "retry" }
                     THEN TRUE ELSE watch_dirty[q]]

\* the opening condition with a strict comparison
ShouldOpenStrict(new_failure_count, cur_status) ==
    new_failure_count > failure_threshold /\ cur_status # "open"

\* if new_failure_count >= self.failure_threshold and current_status != "open"
ShouldOpen(new_failure_count, cur_status) ==
    new_failure_count >= failure_threshold /\ cur_status # "open"

\* an EXEC that ignores the WATCH
WatchIgnored(p) == TRUE

\* an EXEC that fails whatever happened since WATCH
WatchNeverHolds(p) == FALSE

\* EXEC succeeds iff no watched key was written since WATCH
WatchHolds(p) == ~watch_dirty[p]

\* pipe.watch(self.failures_key, self.status_key): the first command of a call,
\* and of each further turn of "while True" after a WatchError
Watch(p) ==
    /\ \/ rec_pc[p] = "idle" /\ smtp_total_timeouts_historical < MaxTimeouts
       \/ rec_pc[p] = "retry"
    /\ rec_pc' = [rec_pc EXCEPT ![p] = "watched"]
    /\ watch_dirty' = [watch_dirty EXCEPT ![p] = FALSE]
    /\ UNCHANGED << smtp_timeout_failures, smtp_circuit_status, smtp_last_timeout,
                    smtp_total_timeouts_historical, expiryVars, readVars, settingsVars,
                    current_failures, current_status, h_commits, h_retried >>
    /\ UNCHANGED << batchVars, otherVars >>

\* current_failures = int(pipe.get(self.failures_key) or 0)
GetFailures(p) ==
    /\ rec_pc[p] = "watched"
    /\ current_failures' = [current_failures EXCEPT ![p] = IntOrZero(smtp_timeout_failures)]
    /\ rec_pc' = [rec_pc EXCEPT ![p] = "got_failures"]
    /\ UNCHANGED << smtp_timeout_failures, smtp_circuit_status, smtp_last_timeout,
                    smtp_total_timeouts_historical, expiryVars, readVars, settingsVars,
                    current_status, watch_dirty, h_commits, h_retried >>
    /\ UNCHANGED << batchVars, otherVars >>

\* current_status = pipe.get(self.status_key)
GetStatus(p) ==
    /\ rec_pc[p] = "got_failures"
    /\ current_status' = [current_status EXCEPT ![p] = smtp_circuit_status]
    /\ rec_pc' = [rec_pc EXCEPT ![p] = "got_status"]
    /\ UNCHANGED << smtp_timeout_failures, smtp_circuit_status, smtp_last_timeout,
                    smtp_total_timeouts_historical, expiryVars, readVars, settingsVars,
                    current_failures, watch_dirty, h_commits, h_retried >>
    /\ UNCHANGED << batchVars, otherVars >>

\* pipe.multi() ... pipe.execute(): the queued commands are applied atomically
ExecCommit(p) ==
    /\ rec_pc[p] = "got_status"
    /\ WatchHolds(p)
    /\ LET new_failure_count == current_failures[p] + 1 IN
        /\ smtp_timeout_failures' = new_failure_count
        /\ smtp_last_timeout' = smtp_total_timeouts_historical + 1
        /\ smtp_total_timeouts_historical' = smtp_total_timeouts_historical + 1
        /\ smtp_circuit_status' =
              IF ShouldOpen(new_failure_count, current_status[p])
              THEN "open" ELSE smtp_circuit_status
        /\ ttl_failures' = key_expiry
        /\ ttl_last_timeout' = key_expiry
        /\ ttl_status' =
              IF ShouldOpen(new_failure_count, current_status[p])
              THEN key_expiry ELSE ttl_status
    /\ watch_dirty' = Touch(p)
    /\ rec_pc' = [rec_pc EXCEPT ![p] = "idle"]
    /\ current_failures' = [current_failures EXCEPT ![p] = 0]
    /\ current_status' = [current_status EXCEPT ![p] = NoKey]
    /\ h_commits' = IF h_commits >= 0 THEN h_commits + 1 ELSE h_commits
    /\ UNCHANGED << readVars, settingsVars, h_retried >>
    /\ UNCHANGED << batchVars, otherVars >>

\* pipe.execute() raises redis.WatchError: nothing is applied, the loop retries
ExecWatchError(p) ==
    /\ rec_pc[p] = "got_status"
    /\ ~WatchHolds(p)
    /\ rec_pc' = [rec_pc EXCEPT ![p] = "retry"]
    /\ current_failures' = [current_failures EXCEPT ![p] = 0]
    /\ current_status' = [current_status EXCEPT ![p] = NoKey]
    /\ watch_dirty' = [watch_dirty EXCEPT ![p] = FALSE]
    /\ h_retried' = TRUE
    /\ UNCHANGED << smtp_timeout_failures, smtp_circuit_status, smtp_last_timeout,
                    smtp_total_timeouts_historical, expiryVars, readVars, settingsVars, h_commits >>
    /\ UNCHANGED << batchVars, otherVars >>

\* a reset that writes the status and leaves the failure counter
reset_status_only(p) ==
    /\ rec_pc[p] = "idle"
    /\ smtp_circuit_status' = "closed"
    /\ watch_dirty' = Touch(p)
    /\ ttl_status' = key_expiry
    /\ h_commits' = 0
    /\ h_retried' = FALSE
    /\ UNCHANGED << smtp_timeout_failures, ttl_failures, smtp_last_timeout,
                    smtp_total_timeouts_historical, ttl_last_timeout, readVars,
                    settingsVars, rec_pc, current_failures, current_status >>
    /\ UNCHANGED << batchVars, otherVars >>

\* CircuitBreaker.reset: one MULTI/EXEC pipeline
reset(p) ==
    /\ rec_pc[p] = "idle"
    /\ smtp_timeout_failures' = 0
    /\ smtp_circuit_status' = "closed"
    /\ watch_dirty' = Touch(p)
    /\ ttl_failures' = key_expiry
    /\ ttl_status' = key_expiry
    /\ h_commits' = 0
    /\ h_retried' = FALSE
    /\ UNCHANGED << smtp_last_timeout, smtp_total_timeouts_historical,
                    ttl_last_timeout, readVars,
                    settingsVars, rec_pc, current_failures, current_status >>
    /\ UNCHANGED << batchVars, otherVars >>

\* an open_circuit that counts as a timeout in the lifetime counter
open_circuit_counts(p) ==
    /\ rec_pc[p] = "idle"
    /\ smtp_circuit_status # "open"
    /\ smtp_total_timeouts_historical < MaxTimeouts
    /\ smtp_circuit_status' = "open"
    /\ smtp_total_timeouts_historical' = smtp_total_timeouts_historical + 1
    /\ watch_dirty' = Touch(p)
    /\ ttl_status' = key_expiry
    /\ h_commits' = -1
    /\ UNCHANGED << smtp_timeout_failures, smtp_last_timeout,
                    ttl_failures, ttl_last_timeout,
                    readVars, settingsVars, rec_pc,
                    current_failures, current_status, h_retried >>
    /\ UNCHANGED << batchVars, otherVars >>

\* CircuitBreaker.open_circuit
open_circuit(p) ==
    /\ rec_pc[p] = "idle"
    /\ smtp_circuit_status # "open"
    /\ smtp_circuit_status' = "open"
    /\ watch_dirty' = Touch(p)
    /\ ttl_status' = key_expiry
    /\ h_commits' = -1
    /\ UNCHANGED << smtp_timeout_failures, smtp_last_timeout,
                    smtp_total_timeouts_historical, ttl_failures, ttl_last_timeout,
                    readVars, settingsVars, rec_pc,
                    current_failures, current_status, h_retried >>
    /\ UNCHANGED << batchVars, otherVars >>

\* a record_dns_fallback that also writes "closed" to the status key
record_dns_fallback_closes(p) ==
    /\ rec_pc[p] = "idle"
    /\ smtp_total_dns_fallbacks_historical < MaxFallbacks
    /\ smtp_total_dns_fallbacks_historical' = smtp_total_dns_fallbacks_historical + 1
    /\ smtp_circuit_status' = "closed"
    /\ ttl_status' = key_expiry
    /\ UNCHANGED << smtp_timeout_failures, smtp_last_timeout,
                    smtp_total_timeouts_historical, ttl_failures, ttl_last_timeout,
                    cb_ret, settingsVars,
                    rec_pc, current_failures, current_status, watch_dirty,
                    h_commits, h_retried >>
    /\ UNCHANGED << batchVars, otherVars >>

\* self.redis.incr(self.total_dns_fallbacks_key)
record_dns_fallback(p) ==
    /\ rec_pc[p] = "idle"
    /\ smtp_total_dns_fallbacks_historical < MaxFallbacks
    /\ smtp_total_dns_fallbacks_historical' = smtp_total_dns_fallbacks_historical + 1
    /\ UNCHANGED << smtp_timeout_failures, smtp_circuit_status, smtp_last_timeout,
                    smtp_total_timeouts_historical, expiryVars, cb_ret, settingsVars,
                    rec_pc, current_failures, current_status, watch_dirty,
                    h_commits, h_retried >>
    /\ UNCHANGED << batchVars, otherVars >>

\* the value of cb_ret before any call returned
NoReturn == [call |-> "none"]

\* a caller reads the property is_open
ReadIsOpen(p) ==
    /\ rec_pc[p] = "idle"
    /\ cb_ret' = [call |-> "is_open", value |-> is_open]
    /\ UNCHANGED << smtp_timeout_failures, smtp_circuit_status, smtp_last_timeout,
                    smtp_total_timeouts_historical, expiryVars,
                    smtp_total_dns_fallbacks_historical, settingsVars,
                    rec_pc, current_failures, current_status, watch_dirty,
                    h_commits, h_retried >>
    /\ UNCHANGED << batchVars, otherVars >>

\* CircuitBreaker.get_metrics: one pipeline of five GETs; of the dictionary it
\* returns, the entry "status" is kept
get_metrics(p) ==
    /\ rec_pc[p] = "idle"
    /\ cb_ret' = [call |-> "get_metrics", status |-> MetricsStatus]
    /\ UNCHANGED << smtp_timeout_failures, smtp_circuit_status, smtp_last_timeout,
                    smtp_total_timeouts_historical, expiryVars,
                    smtp_total_dns_fallbacks_historical, settingsVars,
                    rec_pc, current_failures, current_status, watch_dirty,
                    h_commits, h_retried >>
    /\ UNCHANGED << batchVars, otherVars >>

\* a key with this time to live is gone after the next step of the clock
Expires(ttl) == ttl > 0 /\ ttl <= TickSeconds

\* the time to live after the next step of the clock
TtlAfter(ttl) == IF ttl > TickSeconds THEN ttl - TickSeconds ELSE 0

\* TickSeconds pass: the key store deletes the keys whose time to live (set by
\* the expire commands with key_expiry) has run out. Whether the expiry of a
\* watched key makes a later EXEC fail depends on the version of the server.
Tick(aborts) ==
    /\ ttl_failures > 0 \/ ttl_status > 0 \/ ttl_last_timeout > 0
    /\ ttl_failures' = TtlAfter(ttl_failures)
    /\ ttl_status' = TtlAfter(ttl_status)
    /\ ttl_last_timeout' = TtlAfter(ttl_last_timeout)
    /\ smtp_timeout_failures' =
            IF Expires(ttl_failures) THEN NoCount ELSE smtp_timeout_failures
    /\ smtp_circuit_status' =
            IF Expires(ttl_status) THEN NoKey ELSE smtp_circuit_status
    /\ smtp_last_timeout' = IF Expires(ttl_last_timeout) THEN 0 ELSE smtp_last_timeout
    /\ watch_dirty' =
            IF aborts /\ (Expires(ttl_failures) \/ Expires(ttl_status))
            THEN Touch(0) ELSE watch_dirty
    /\ UNCHANGED << smtp_total_timeouts_historical, readVars, settingsVars, rec_pc,
                    current_failures, current_status, h_commits, h_retried >>
    /\ UNCHANGED << batchVars, otherVars >>

(***************************************************************************)
(* Batch splitter: app/utils/batch_utils.py                                *)
(***************************************************************************)

Min(a, b) == IF a <= b THEN a ELSE b

\* one tier for every list longer than 20
BatchSizeOneTier(total_emails) == 30

\* the tier of split_into_batches for lists longer than 20
BatchSize(total_emails) ==
    IF total_emails <= 100 THEN 30
    ELSE IF total_emails <= 200 THEN 50
    ELSE IF total_emails <= 500 THEN 100
    ELSE IF total_emails <= 1000 THEN 150
    ELSE 200

\* [emails[i:i+size] for i in range(0, len(emails), size)]
Slices(emails, size) ==
    [k \in 1 .. ((Len(emails) + size - 1) \div size) |->
        SubSeq(emails, (k - 1) * size + 1, Min(k * size, Len(emails)))]

\* split_into_batches
split_into_batches(emails) ==
    IF Len(emails) <= 20 THEN << emails >> ELSE Slices(emails, BatchSize(Len(emails)))

(***************************************************************************)
(* Messages, snapshots and tracking records                                *)
(***************************************************************************)

\* An email is modelled by a number: k > 0 is the k-th address of its list (a
\* string), 0 is a JSON value that is not a string (validate_email raises on it
\* when it builds EmailValidationResult, before its try block).
IsString(email) == email > 0

Flags(b) == [check_mx |-> b, check_smtp |-> b, check_disposable |-> b,
             check_catch_all |-> b, check_blacklist |-> b]

\* the request sizes tried: the smallest queued request, one of two chunks, and
\* the sizes that split into several batches
RequestSizes ==
    { SMALL_BATCH_THRESHOLD + 1, WORKER_BATCH_SIZE + 2 } \cup (31 .. MaxRequestEmails)

\* A message: tag is its identity on the queue, json says whether its body is
\* valid JSON, batchId is 0 when the body has no batchId.
NoMsg == [tag |-> 0, json |-> TRUE, batchId |-> 0, emails |-> << >>,
          validation_flags |-> Flags(TRUE)]

\* no validate_batch request yet
NoRequest == [n |-> 0, flags |-> Flags(TRUE)]

\* validation_results:{batch_id} is absent
NoSnapshot == [present |-> FALSE, isComplete |-> FALSE, validatedEmails |-> << >>,
               totalEmails |-> 0, processedCount |-> 0]

\* multi_batch:{request_id} is absent
NoTracking == [present |-> FALSE, requestId |-> 0, batchIds |-> << >>, totalEmails |-> 0,
               processedEmails |-> 0, status |-> "processing", batches |-> << >>]

\* no response yet
NoResponse == [kind |-> "none", status |-> "", totalEmails |-> -1,
               processedEmails |-> -1, results |-> << >>]

SeqSum(f) ==
    LET RECURSIVE Go(_)
        Go(k) == IF k = 0 THEN 0 ELSE f[k] + Go(k - 1)
    IN Go(Len(f))

(***************************************************************************)
(* validate_batch: app/api/routes.py                                       *)
(***************************************************************************)

\* the message with the flags of a default request in place of those given
MessageDefaultFlags(batch_id, emails, validation_flags) ==
    [tag |-> batch_id, json |-> TRUE, batchId |-> batch_id, emails |-> emails,
     validation_flags |-> Flags(TRUE)]

\* queue_batch_for_processing: one persistent message per batch
Message(batch_id, emails, validation_flags) ==
    [tag |-> batch_id, json |-> TRUE, batchId |-> batch_id, emails |-> emails,
     validation_flags |-> validation_flags]

\* validate_batch up to the first publish: a request of more than
\* SMALL_BATCH_THRESHOLD emails is split; a single batch is published at once,
\* several batches get a request id and are published one by one.
ValidateBatch(n, flags) ==
    /\ sub_pc = "idle"
    /\ n_requests + n_foreign < MaxSubmissions
    /\ n > SMALL_BATCH_THRESHOLD
    /\ LET emails == [i \in 1 .. n |-> i]
           email_batches == split_into_batches(emails)
       IN IF Len(email_batches) = 1
          THEN /\ queue' = Append(queue, Message(next_uuid, emails, flags))
               /\ h_published' = << Message(next_uuid, emails, flags) >>
               /\ next_uuid' = next_uuid + 1
               /\ sub_resp' = "ok"
               /\ UNCHANGED << sub_pc, sub_batches, sub_batch_ids, sub_request_id,
                               sub_flags, sub_k >>
          ELSE /\ sub_pc' = "queueing"
               /\ sub_request_id' = next_uuid
               /\ next_uuid' = next_uuid + 1
               /\ sub_batches' = email_batches
               /\ sub_batch_ids' = << >>
               /\ sub_flags' = flags
               /\ sub_k' = 0
               /\ sub_resp' = "none"
               /\ h_published' = << >>
               /\ UNCHANGED queue
    /\ n_requests' = n_requests + 1
    /\ h_req' = [n |-> n, flags |-> flags]
    /\ UNCHANGED << breakerVars, dlq, acked, n_foreign, storeVars, workerVars, multiVars,
                    batchHist >>
    /\ UNCHANGED << h_malformed, h_deliveries, h_validated, h_twice, h_raised,
                    otherVars >>

\* validate_batch with one batch: connect_robust or the publish raises, the
\* request is answered with HTTP 500
ValidateBatchRaises(n, flags) ==
    /\ sub_pc = "idle"
    /\ n_requests + n_foreign < MaxSubmissions
    /\ n > SMALL_BATCH_THRESHOLD
    /\ Len(split_into_batches([i \in 1 .. n |-> i])) = 1
    /\ h_faults < MaxFaults
    /\ h_faults' = h_faults + 1
    /\ next_uuid' = next_uuid + 1
    /\ n_requests' = n_requests + 1
    /\ sub_resp' = "error"
    /\ h_req' = [n |-> n, flags |-> flags]
    /\ h_published' = << >>
    /\ UNCHANGED << breakerVars, queue, dlq, acked, n_foreign, storeVars, sub_pc,
                    sub_batches, sub_batch_ids, sub_request_id, sub_flags, sub_k,
                    workerVars, multiVars, h_dropped, h_chunks_done, h_child_complete >>
    /\ UNCHANGED << h_malformed, h_deliveries, h_validated, h_twice, h_raised,
                    otherVars >>

\* for email_batch in email_batches: batch_id = uuid4(); queue_batch_for_processing(...)
QueueBatch ==
    /\ sub_pc = "queueing"
    /\ sub_k < Len(sub_batches)
    /\ queue' = Append(queue, Message(next_uuid, sub_batches[sub_k + 1], sub_flags))
    /\ sub_batch_ids' = Append(sub_batch_ids, next_uuid)
    /\ next_uuid' = next_uuid + 1
    /\ sub_k' = sub_k + 1
    /\ h_published' = Append(h_published,
                             Message(next_uuid, sub_batches[sub_k + 1], sub_flags))
    /\ sub_pc' = IF sub_k + 1 = Len(sub_batches) THEN "tracking" ELSE "queueing"
    /\ UNCHANGED << breakerVars, dlq, acked, n_requests, n_foreign, storeVars,
                    sub_batches, sub_request_id, sub_flags, sub_resp, workerVars,
                    multiVars, batchHist >>
    /\ UNCHANGED << h_req, h_malformed, h_deliveries, h_validated, h_twice, h_raised,
                    otherVars >>

\* connect_robust or a publish of the loop raises: except Exception, the request
\* is answered with HTTP 500; the messages published so far stay on the queue
QueueBatchRaises ==
    /\ sub_pc = "queueing"
    /\ sub_k < Len(sub_batches)
    /\ h_faults < MaxFaults
    /\ h_faults' = h_faults + 1
    /\ sub_pc' = "idle"
    /\ sub_resp' = "error"
    /\ UNCHANGED << breakerVars, queueVars, storeVars, sub_batches, sub_batch_ids,
                    sub_request_id, sub_flags, sub_k, workerVars, multiVars,
                    h_dropped, h_chunks_done, h_child_complete >>
    /\ UNCHANGED << dispatchHist, otherVars >>

\* create_batch_tracking: the setex of multi_batch:{request_id}
\* (total_emails is len(request.emails), which is the sum of the lengths of
\* the batches the request was split into)
CreateTracking ==
    /\ sub_pc = "tracking"
    /\ multi_batch' = [multi_batch EXCEPT ![sub_request_id] =
            [present |-> TRUE, requestId |-> sub_request_id, batchIds |-> sub_batch_ids,
             totalEmails |-> SeqSum([k \in 1 .. Len(sub_batches) |-> Len(sub_batches[k])]),
             processedEmails |-> 0, status |-> "processing", batches |-> << >>]]
    /\ sub_pc' = "indexing"
    /\ sub_k' = 0
    /\ UNCHANGED << breakerVars, queueVars, validation_results, batch_parent, sub_batches,
                    sub_batch_ids, sub_request_id, sub_flags, sub_resp, workerVars,
                    multiVars, batchHist >>
    /\ UNCHANGED << dispatchHist, otherVars >>

\* create_batch_tracking: the setex of batch_parent:{batch_id}, one per batch
IndexBatch ==
    /\ sub_pc = "indexing"
    /\ batch_parent' = [batch_parent EXCEPT ![sub_batch_ids[sub_k + 1]] = sub_request_id]
    /\ sub_k' = sub_k + 1
    /\ sub_pc' = IF sub_k + 1 = Len(sub_batch_ids) THEN "idle" ELSE "indexing"
    /\ sub_resp' = IF sub_k + 1 = Len(sub_batch_ids) THEN "ok" ELSE "none"
    /\ UNCHANGED << breakerVars, queueVars, validation_results, multi_batch, sub_batches,
                    sub_batch_ids, sub_request_id, sub_flags, workerVars, multiVars,
                    batchHist >>
    /\ UNCHANGED << dispatchHist, otherVars >>

\* a setex of create_batch_tracking raises: except Exception, the request is
\* answered with HTTP 500; the keys written so far stay
TrackingRaises ==
    /\ sub_pc \in { "tracking", "indexing" }
    /\ h_faults < MaxFaults
    /\ h_faults' = h_faults + 1
    /\ sub_pc' = "idle"
    /\ sub_resp' = "error"
    /\ UNCHANGED << breakerVars, queueVars, storeVars, sub_batches, sub_batch_ids,
                    sub_request_id, sub_flags, sub_k, workerVars, multiVars,
                    h_dropped, h_chunks_done, h_child_complete >>
    /\ UNCHANGED << dispatchHist, otherVars >>

\* the bodies of the messages of other publishers: a body of the right shape,
\* one that is not valid JSON, one without batchId
Forms == { "ok", "not_json", "no_batch_id" }

\* a body that process_message cannot use: not JSON, no batchId, or emails
\* missing or empty
Malformed(msg) == ~msg.json \/ msg.batchId = 0 \/ msg.emails = << >>

\* Another publisher puts a message on the queue; its emails are strings except,
\* possibly, one value that is not a string.
PublishForeign(n, bad, form) ==
    /\ n_requests + n_foreign < MaxSubmissions
    /\ bad <= n
    /\ form = "not_json" => n = 0
    /\ LET msg == [tag |-> next_uuid,
                   json |-> form # "not_json",
                   batchId |-> IF form = "ok" THEN next_uuid ELSE 0,
                   emails |-> [i \in 1 .. n |-> IF i = bad THEN 0 ELSE i],
                   validation_flags |-> Flags(TRUE)]
       IN  /\ queue' = Append(queue, msg)
           /\ h_malformed' = IF Malformed(msg) THEN h_malformed \cup { msg.tag }
                                               ELSE h_malformed
    /\ next_uuid' = next_uuid + 1
    /\ n_foreign' = n_foreign + 1
    /\ UNCHANGED << breakerVars, dlq, acked, n_requests, storeVars, submitVars, workerVars,
                    multiVars, batchHist >>
    /\ UNCHANGED << h_req, h_published, h_deliveries, h_validated, h_twice, h_raised,
                    otherVars >>

(***************************************************************************)
(* Worker: app/worker.py                                                   *)
(***************************************************************************)

\* An access to self.validator.circuit_breaker raises: always when the attribute
\* is missing, and as a fault of the store when it is there.
BreakerAccessRaises ==
    IF validator_has_breaker
    THEN h_faults < MaxFaults /\ h_faults' = h_faults + 1
    ELSE UNCHANGED h_faults

\* chunks = [emails[i:i + WORKER_BATCH_SIZE] for i in range(0, total_emails, WORKER_BATCH_SIZE)]
Chunks(w) == Slices(w_msg[w].emails, WORKER_BATCH_SIZE)

\* a chunk loop that is left after its first chunk
AfterChunkLeaves(w) == "final"

\* the chunk loop goes on with the next chunk or leaves the loop
AfterChunk(w) == IF w_i[w] + 1 > Len(Chunks(w)) THEN "final" ELSE "chunk"

\* a gather that raises the first exception: the chunk has no results
ProcessedResultsOrNone(chunk) ==
    IF \E k \in 1 .. Len(chunk) : ~IsString(chunk[k]) THEN << >> ELSE chunk

\* processed_results: the results of gather that are not exceptions
ProcessedResults(chunk) == SelectSeq(chunk, IsString)

\* all_results when each chunk's results replace the earlier ones
ExtendReplacing(results, processed) == processed

\* all_results.extend(processed_results)
Extend(results, processed) == results \o processed

\* the snapshot written by setex
Snapshot(is_complete, results, total_emails) ==
    [present |-> TRUE, isComplete |-> is_complete, validatedEmails |-> results,
     totalEmails |-> total_emails, processedCount |-> Len(results)]

\* the message rejected with requeue = true: the broker puts it back on the queue
RejectRequeue(msg, rest) ==
    /\ dlq' = dlq
    /\ queue' = Append(rest, msg)

\* a broker that discards a rejected message: no dead-letter queue
RejectDiscards(msg, rest) ==
    /\ dlq' = dlq
    /\ queue' = rest

\* await message.reject(requeue=False): the broker moves the message to the
\* dead-letter queue; rest is the queue without it
Reject(msg, rest) ==
    /\ dlq' = dlq \cup { msg.tag }
    /\ queue' = rest

\* process_message up to the chunk loop of process_emails
Receive(w) ==
    /\ w_pc[w] = "idle"
    /\ queue # << >>
    /\ LET msg == Head(queue) IN
        /\ h_deliveries' = [h_deliveries EXCEPT ![msg.tag] = @ + 1]
        /\ IF ~msg.json
           THEN \* json.loads raises: the message is rejected
                /\ Reject(msg, Tail(queue))
                /\ h_raised' = h_raised \cup { msg.tag }
                /\ UNCHANGED << acked, workerVars >>
           ELSE IF msg.batchId = 0 \/ msg.emails = << >>
           THEN \* "Invalid message format": return, the message is acknowledged
                /\ acked' = acked \cup { msg.tag }
                /\ queue' = Tail(queue)
                /\ UNCHANGED << dlq, h_raised, workerVars >>
           ELSE /\ w_msg' = [w_msg EXCEPT ![w] = msg]
                /\ w_i' = [w_i EXCEPT ![w] = 1]
                /\ all_results' = [all_results EXCEPT ![w] = << >>]
                /\ w_pc' = [w_pc EXCEPT ![w] = "chunk"]
                /\ queue' = Tail(queue)
                /\ UNCHANGED << dlq, acked, h_raised, circuit_open >>
    /\ UNCHANGED << breakerVars, next_uuid, n_requests, n_foreign, storeVars,
                    submitVars, multiVars, batchHist >>
    /\ UNCHANGED << h_req, h_published, h_malformed, h_validated, h_twice, otherVars >>

\* circuit_open = self.validator.circuit_breaker.is_open
ChunkBegin(w) ==
    /\ w_pc[w] = "chunk"
    /\ validator_has_breaker
    /\ circuit_open' = [circuit_open EXCEPT ![w] = is_open]
    /\ w_pc' = [w_pc EXCEPT ![w] = "gather"]
    /\ UNCHANGED << breakerVars, queueVars, storeVars, submitVars, w_msg, w_i,
                    all_results, multiVars, batchHist >>
    /\ UNCHANGED << dispatchHist, otherVars >>

\* self.validator.circuit_breaker.is_open raises, AttributeError when the
\* validator carries no circuit_breaker and an error of the store otherwise:
\* except Exception: continue
ChunkBeginRaises(w) ==
    /\ w_pc[w] = "chunk"
    /\ BreakerAccessRaises
    /\ h_dropped' = [h_dropped EXCEPT ![w_msg[w].batchId] = @ + Len(Chunks(w)[w_i[w]])]
    /\ h_chunks_done' = [h_chunks_done EXCEPT ![w_msg[w].batchId] = @ + 1]
    /\ w_i' = [w_i EXCEPT ![w] = @ + 1]
    /\ w_pc' = [w_pc EXCEPT ![w] = AfterChunk(w)]
    /\ UNCHANGED << breakerVars, queueVars, storeVars, submitVars, w_msg, all_results,
                    circuit_open, multiVars, h_child_complete >>
    /\ UNCHANGED << dispatchHist, otherVars >>

\* chunk_results = await asyncio.gather(..., return_exceptions=True), the
\* exceptions are skipped and the rest is appended to all_results
Gather(w) ==
    /\ w_pc[w] = "gather"
    /\ LET chunk == Chunks(w)[w_i[w]] IN
        /\ all_results' = [all_results EXCEPT ![w] = Extend(@, ProcessedResults(chunk))]
        /\ h_dropped' = [h_dropped EXCEPT ![w_msg[w].batchId] =
                @ + Cardinality({k \in 1 .. Len(chunk) : ~IsString(chunk[k])})]
        /\ h_validated' = [h_validated EXCEPT ![w_msg[w].tag] =
                @ \cup { chunk[k] : k \in 1 .. Len(chunk) }]
        /\ h_twice' = (h_twice \/ \E k \in 1 .. Len(chunk) :
                                    chunk[k] \in h_validated[w_msg[w].tag])
    /\ w_pc' = [w_pc EXCEPT ![w] = "store"]
    /\ UNCHANGED << breakerVars, queueVars, storeVars, submitVars, w_msg, w_i,
                    circuit_open, multiVars, h_faults, h_chunks_done,
                    h_child_complete >>
    /\ UNCHANGED << h_req, h_published, h_malformed, h_deliveries, h_raised,
                    otherVars >>

\* progress = {...}; await self.redis.setex(...); the publish that follows
\* leaves no state behind
StoreProgress(w) ==
    /\ w_pc[w] = "store"
    /\ validation_results' = [validation_results EXCEPT ![w_msg[w].batchId] =
            Snapshot(FALSE, all_results[w], Len(w_msg[w].emails))]
    /\ h_chunks_done' = [h_chunks_done EXCEPT ![w_msg[w].batchId] = @ + 1]
    /\ w_i' = [w_i EXCEPT ![w] = @ + 1]
    /\ w_pc' = [w_pc EXCEPT ![w] = AfterChunk(w)]
    /\ UNCHANGED << breakerVars, queueVars, multi_batch, batch_parent, submitVars, w_msg,
                    all_results, circuit_open, multiVars, h_faults,
                    h_dropped, h_child_complete >>
    /\ UNCHANGED << dispatchHist, otherVars >>

\* the setex of the progress snapshot raises: except Exception: continue
StoreProgressRaises(w) ==
    /\ w_pc[w] = "store"
    /\ h_faults < MaxFaults
    /\ h_faults' = h_faults + 1
    /\ h_chunks_done' = [h_chunks_done EXCEPT ![w_msg[w].batchId] = @ + 1]
    /\ w_i' = [w_i EXCEPT ![w] = @ + 1]
    /\ w_pc' = [w_pc EXCEPT ![w] = AfterChunk(w)]
    /\ UNCHANGED << breakerVars, queueVars, storeVars, submitVars, w_msg, all_results,
                    circuit_open, multiVars, h_dropped, h_child_complete >>
    /\ UNCHANGED << dispatchHist, otherVars >>

\* final_results = {...}; await self.redis.setex(...)
StoreFinal(w) ==
    /\ w_pc[w] = "final"
    /\ validation_results' = [validation_results EXCEPT ![w_msg[w].batchId] =
            Snapshot(TRUE, all_results[w], Len(w_msg[w].emails))]
    /\ w_pc' = [w_pc EXCEPT ![w] = "finish"]
    /\ UNCHANGED << breakerVars, queueVars, multi_batch, batch_parent, submitVars, w_msg,
                    w_i, all_results, circuit_open, multiVars, batchHist >>
    /\ UNCHANGED << dispatchHist, otherVars >>

\* the worker is idle again
WorkerIdle(w) ==
    /\ w_pc' = [w_pc EXCEPT ![w] = "idle"]
    /\ w_msg' = [w_msg EXCEPT ![w] = NoMsg]
    /\ w_i' = [w_i EXCEPT ![w] = 0]
    /\ all_results' = [all_results EXCEPT ![w] = << >>]
    /\ circuit_open' = [circuit_open EXCEPT ![w] = FALSE]

\* the setex of the final snapshot raises: process_message rejects the message
StoreFinalRaises(w) ==
    /\ w_pc[w] = "final"
    /\ h_faults < MaxFaults
    /\ h_faults' = h_faults + 1
    /\ Reject(w_msg[w], queue)
    /\ h_raised' = h_raised \cup { w_msg[w].tag }
    /\ WorkerIdle(w)
    /\ UNCHANGED << breakerVars, acked, next_uuid, n_requests, n_foreign,
                    storeVars, submitVars, multiVars, h_dropped,
                    h_chunks_done, h_child_complete >>
    /\ UNCHANGED << h_req, h_published, h_malformed, h_deliveries, h_validated,
                    h_twice, otherVars >>

\* get_metrics(); self.validator.circuit_breaker.reset(); the message is acknowledged
Finish(w) ==
    /\ w_pc[w] = "finish"
    /\ validator_has_breaker
    /\ smtp_timeout_failures' = 0
    /\ smtp_circuit_status' = "closed"
    /\ watch_dirty' = Touch(0)
    /\ h_commits' = 0
    /\ h_retried' = FALSE
    /\ acked' = acked \cup { w_msg[w].tag }
    /\ ttl_failures' = key_expiry
    /\ ttl_status' = key_expiry
    /\ WorkerIdle(w)
    /\ UNCHANGED << smtp_last_timeout, smtp_total_timeouts_historical,
                    ttl_last_timeout, readVars,
                    settingsVars, rec_pc, current_failures, current_status,
                    queue, dlq, next_uuid, n_requests, n_foreign, storeVars, submitVars,
                    multiVars, batchHist >>
    /\ UNCHANGED << dispatchHist, otherVars >>

\* get_metrics or reset raises: process_message rejects the message
FinishRaises(w) ==
    /\ w_pc[w] = "finish"
    /\ BreakerAccessRaises
    /\ Reject(w_msg[w], queue)
    /\ h_raised' = h_raised \cup { w_msg[w].tag }
    /\ WorkerIdle(w)
    /\ UNCHANGED << breakerVars, acked, next_uuid, n_requests, n_foreign,
                    storeVars, submitVars, multiVars, h_dropped,
                    h_chunks_done, h_child_complete >>
    /\ UNCHANGED << h_req, h_published, h_malformed, h_deliveries, h_validated,
                    h_twice, otherVars >>

(***************************************************************************)
(* Status readers: app/api/routes.py, app/utils/batch_utils.py             *)
(***************************************************************************)

\* the ids handed out so far
Allocated == 1 .. (next_uuid - 1)

\* get_validation_status: the response to a status read of id in this state
\* (the handler reads the keys and writes nothing)
get_validation_status(id) ==
    LET results == validation_results[id] IN
    IF ~results.present /\ batch_parent[id] = 0 /\ multi_batch[id].present
    THEN [NoResponse EXCEPT !.kind = "redirect"]
    ELSE IF ~results.present
    THEN [NoResponse EXCEPT !.kind = "status", !.status = "processing"]
    ELSE [kind |-> "status",
          status |-> IF results.isComplete THEN "completed" ELSE "processing",
          totalEmails |-> results.totalEmails,
          processedEmails |-> results.processedCount,
          results |-> results.validatedEmails]

\* one entry of batch_statuses for a child with no stored status
MissingChildStatus(batch_id) ==
    [batchId |-> batch_id, status |-> "processing", processedEmails |-> 0, totalEmails |-> 0]

\* one entry of batch_statuses for a stored status
ChildStatus(batch_id, batch_status) ==
    [batchId |-> batch_id,
     status |-> IF batch_status.isComplete THEN "completed" ELSE "processing",
     processedEmails |-> batch_status.processedCount,
     totalEmails |-> batch_status.totalEmails]

\* all_complete after a child with no stored status, were it left as it is
AllCompleteAfterMissingKept(all_complete) == all_complete

\* all_complete after a child with no stored status: all_complete = False
AllCompleteAfterMissing(all_complete) == FALSE

\* all_complete after a stored status: if not batch_status["isComplete"]: all_complete = False
AllCompleteAfter(all_complete, batch_status) == all_complete /\ batch_status.isComplete

\* get_multi_batch_status: tracking_data_json = await redis_client.get(...)
MultiBegin(request_id) ==
    /\ ms_pc = "idle"
    /\ n_multi_calls < MaxMultiCalls
    /\ n_multi_calls' = n_multi_calls + 1
    /\ request_id \in Allocated
    /\ LET tracking_data == multi_batch[request_id] IN
        IF ~tracking_data.present
        THEN \* return None
             /\ ms_pc' = "returned"
             /\ ms_resp' = NoTracking
             /\ UNCHANGED << ms_tracking, ms_idx, ms_all_complete,
                             ms_total_processed, ms_batch_statuses, h_child_complete >>
        ELSE /\ ms_pc' = "children"
             /\ ms_tracking' = tracking_data
             /\ ms_idx' = 1
             /\ ms_all_complete' = TRUE
             /\ ms_total_processed' = 0
             /\ ms_batch_statuses' = << >>
             /\ h_child_complete' = << >>
             /\ UNCHANGED ms_resp
    /\ UNCHANGED << breakerVars, queueVars, storeVars, submitVars, workerVars,
                    h_faults, h_dropped, h_chunks_done >>
    /\ UNCHANGED << dispatchHist, otherVars >>

\* one turn of "for batch_id in batch_ids": the GET of the child's status
MultiReadChild ==
    /\ ms_pc = "children"
    /\ ms_idx <= Len(ms_tracking.batchIds)
    /\ LET batch_id == ms_tracking.batchIds[ms_idx]
           batch_status == validation_results[batch_id]
       IN /\ IF ~batch_status.present
             THEN /\ ms_batch_statuses' = Append(ms_batch_statuses, MissingChildStatus(batch_id))
                  /\ ms_all_complete' = AllCompleteAfterMissing(ms_all_complete)
                  /\ UNCHANGED ms_total_processed
             ELSE /\ ms_batch_statuses' =
                        Append(ms_batch_statuses, ChildStatus(batch_id, batch_status))
                  /\ ms_total_processed' = ms_total_processed + batch_status.processedCount
                  /\ ms_all_complete' = AllCompleteAfter(ms_all_complete, batch_status)
          /\ h_child_complete' =
                Append(h_child_complete, batch_status.present /\ batch_status.isComplete)
    /\ ms_idx' = ms_idx + 1
    /\ UNCHANGED << breakerVars, queueVars, storeVars, submitVars, workerVars, ms_pc,
                    ms_tracking, ms_resp, n_multi_calls, h_faults, h_dropped,
                    h_chunks_done >>
    /\ UNCHANGED << dispatchHist, otherVars >>

\* after the loop: the tracking record is updated, stored and returned
MultiFinish ==
    /\ ms_pc = "children"
    /\ ms_idx > Len(ms_tracking.batchIds)
    /\ LET tracking_data ==
            [ms_tracking EXCEPT
                !.processedEmails = ms_total_processed,
                !.status = IF ms_all_complete THEN "completed" ELSE "processing",
                !.batches = ms_batch_statuses]
       IN /\ multi_batch' = [multi_batch EXCEPT ![ms_tracking.requestId] = tracking_data]
          /\ ms_resp' = tracking_data
    /\ ms_pc' = "returned"
    /\ UNCHANGED << breakerVars, queueVars, validation_results, batch_parent, submitVars,
                    workerVars, ms_tracking, ms_idx, ms_all_complete, ms_total_processed,
                    ms_batch_statuses, n_multi_calls, batchHist >>
    /\ UNCHANGED << dispatchHist, otherVars >>

\* the caller has the response; the locals of the call are gone
MultiReturn ==
    /\ ms_pc = "returned"
    /\ ms_pc' = "idle"
    /\ ms_tracking' = NoTracking
    /\ ms_idx' = 0
    /\ ms_all_complete' = TRUE
    /\ ms_total_processed' = 0
    /\ ms_batch_statuses' = << >>
    /\ ms_resp' = NoTracking
    /\ h_child_complete' = << >>
    /\ UNCHANGED << breakerVars, queueVars, storeVars, submitVars, workerVars,
                    n_multi_calls, h_faults, h_dropped, h_chunks_done >>
    /\ UNCHANGED << dispatchHist, otherVars >>

(***************************************************************************)
(* One call of split_into_batches on its own                               *)
(***************************************************************************)

\* the input lists tried: lists of distinct addresses of every length up to MaxSplitLen
SplitInputs == { [i \in 1 .. n |-> i] : n \in 0 .. MaxSplitLen }

\* email_batches = split_into_batches(emails)
SplitCall ==
    /\ split_pc = "input"
    /\ split_batches' = split_into_batches(split_emails)
    /\ split_pc' = "done"
    /\ UNCHANGED << split_emails, breakerVars, batchVars, pipeVars, cacheVars, chunkVars >>

(***************************************************************************)
(* Validation pipeline: app/services/validator.py                          *)
(***************************************************************************)

\* EmailAttributes()
DefaultAttributes ==
    [free_email |-> FALSE, role_account |-> FALSE, disposable |-> FALSE,
     catch_all |-> FALSE, has_plus_tag |-> FALSE, mailbox_full |-> FALSE,
     no_reply |-> FALSE]

\* result = EmailValidationResult(email=email, is_valid=False, status=UNKNOWN,
\*     details=ValidationDetails(general={"domain": "", "reason": ""}, sub_status=NO_CONNECT))
InitialResult ==
    [is_valid |-> FALSE, status |-> "unknown", risk_level |-> "high",
     deliverability_score |-> 0, attributes |-> DefaultAttributes,
     general |-> [domain |-> "", reason |-> ""], sub_status |-> "No Connect"]

Max(a, b) == IF a >= b THEN a ELSE b

\* _calculate_deliverability_score
calculate_deliverability_score(result) ==
    LET a == result.attributes
        deducted == 100
            - (IF a.disposable THEN 40 ELSE 0)
            - (IF a.catch_all THEN 50 ELSE 0)
            - (IF a.role_account THEN 20 ELSE 0)
            - (IF a.free_email THEN 10 ELSE 0)
            - (IF a.has_plus_tag THEN 10 ELSE 0)
            - (IF a.no_reply THEN 15 ELSE 0)
        score == IF result.status = "risky" THEN deducted - 30
                 ELSE IF result.status = "unknown" THEN deducted - 40
                 ELSE IF result.status = "undeliverable" THEN 0
                 ELSE deducted
    IN Max(0, Min(100, score))

\* _calculate_risk_level
calculate_risk_level(result) ==
    LET score == calculate_deliverability_score(result) IN
    IF score >= 80 THEN "low" ELSE IF score >= 60 THEN "medium" ELSE "high"

\* the five flags of a call: every combination
FlagChoices ==
    [check_mx : BOOLEAN, check_smtp : BOOLEAN, check_disposable : BOOLEAN,
     check_catch_all : BOOLEAN, check_blacklist : BOOLEAN]

\* the stage that follows in the text of validate_email
NextStage(pc) ==
    CASE pc = "syntax" -> "mx"
      [] pc = "mx" -> "attributes"
      [] pc = "attributes" -> "blacklist"
      [] pc = "blacklist" -> "smtp"
      [] OTHER -> "catch_all"

\* a stage that sets its status and lets the next stage run, were "return
\* result" left out
StopAndGoOn(status, reason, sub_status) ==
    /\ v_result' = [v_result EXCEPT !.status = status, !.general.reason = reason,
                                    !.sub_status = sub_status]
    /\ v_pc' = NextStage(v_pc)
    /\ h_stopped' = TRUE

\* "return result" of a stage before the final one
Stop(status, reason, sub_status) ==
    /\ v_result' = [v_result EXCEPT !.status = status, !.general.reason = reason,
                                    !.sub_status = sub_status]
    /\ v_pc' = "done"
    /\ h_stopped' = TRUE

\* the exception leaves validate_email, were there no "except Exception"
HandlerReraises ==
    /\ v_pc' = "raised"
    /\ h_stopped' = TRUE
    /\ UNCHANGED v_result

\* "except Exception as e" of validate_email
Handler ==
    /\ v_result' = [v_result EXCEPT !.status = "unknown",
                                    !.general.reason = "Validation error",
                                    !.sub_status = "Unexpected Error"]
    /\ v_pc' = "done"
    /\ h_stopped' = TRUE

\* ---- the addresses tried and what the code reads off their text

\* the addresses given to validate_email
Emails ==
    { "user@gmail.com", "info@gmail.com", "user@mailinator.com",
      "not-an-email", "a@b@c.com", "" }

\* the addresses validated while the breaker is opened and reset
BreakerEmails == { "user@gmail.com", "not-an-email" }

\* no validation is running
NoEmail == "none"

\* email.split('@')
Split(email) ==
    CASE email = "user@gmail.com" -> << "user", "gmail.com" >>
      [] email = "info@gmail.com" -> << "info", "gmail.com" >>
      [] email = "user@mailinator.com" -> << "user", "mailinator.com" >>
      [] email = "a@b@c.com" -> << "a", "b", "c.com" >>
      [] OTHER -> << email >>

\* the local parts of Emails that match ^[a-zA-Z0-9._%+-]+$ and are at most 64 long
LocalPartPattern == { "user", "info", "a" }

\* the domains of Emails that match the domain pattern and are at most 255 long
DomainPattern == { "gmail.com", "mailinator.com" }

\* _validate_format: the unpacking of split('@') raises unless there are two
\* parts, and the bare except returns False
validate_format(email) ==
    LET parts == Split(email) IN
    /\ Len(parts) = 2
    /\ parts[1] # "" /\ parts[2] # ""
    /\ parts[1] \in LocalPartPattern
    /\ parts[2] \in DomainPattern

\* self.free_email_providers, self.role_prefixes, self.disposable_domains
free_email_providers ==
    { "gmail.com", "yahoo.com", "hotmail.com", "outlook.com", "aol.com",
      "icloud.com", "protonmail.com", "zoho.com", "yandex.com" }

role_prefixes ==
    { "admin", "administrator", "support", "help", "info", "contact",
      "sales", "marketing", "billing", "accounts", "abuse", "postmaster" }

disposable_domains ==
    { "tempmail.com", "throwawaymail.com", "mailinator.com",
      "tempmail.net", "disposablemail.com" }

\* _check_email_attributes; no local part of Emails has a "+" or starts with
\* "noreply" or "no-reply"
check_email_attributes(local_part, domain) ==
    [DefaultAttributes EXCEPT !.free_email = domain \in free_email_providers,
                              !.role_account = local_part \in role_prefixes,
                              !.disposable = domain \in disposable_domains,
                              !.has_plus_tag = FALSE,
                              !.no_reply = FALSE]

\* local_part, domain = email.split('@') of an address that passed the format check
LocalPart(email) == Split(email)[1]
Domain(email) == Split(email)[2]

\* the locals and history a stage leaves alone
v_args == << v_caller, v_flags, v_email >>
h_between == << h_probed, h_repeat >>

\* the entry of validate_email: result = EmailValidationResult(...)
Enter(caller, email, flags, repeat) ==
    /\ v_pc' = "syntax"
    /\ v_caller' = caller
    /\ v_email' = email
    /\ v_flags' = flags
    /\ v_mx_records' = FALSE
    /\ v_result' = InitialResult
    /\ h_smtp_ran' = FALSE
    /\ h_stopped' = FALSE
    /\ h_trace' = << >>
    /\ h_rcpt' = ""
    /\ h_synth' = ""
    /\ h_repeat' = repeat
    /\ UNCHANGED h_probed

StartValidation(caller, email, flags) ==
    /\ v_pc = "idle"
    /\ Enter(caller, email, flags, FALSE)

\* the caller has the result and calls validate_email again with the same
\* email and the same flags
RepeatValidation ==
    /\ v_pc = "done"
    /\ v_caller # "dns"
    /\ Enter(v_caller, v_email, v_flags, TRUE)
    /\ UNCHANGED << breakerVars, batchVars, splitVars, cacheVars, chunkVars >>

\* POST /validate and POST /validate-email: validate_email with the flags of the request
validate_email(email, flags) ==
    /\ StartValidation("direct", email, flags)
    /\ UNCHANGED << breakerVars, batchVars, splitVars, cacheVars, chunkVars >>

\* use_smtp = validation_flags.get('check_smtp', True) and not circuit_open
UseSmtp(check_smtp, open) == check_smtp /\ ~open

\* process_emails, one email of a chunk: circuit_open = ...is_open, then
\* validate_email(email, ..., check_smtp=use_smtp, ...)
WorkerValidate(email, flags) ==
    /\ validator_has_breaker
    /\ StartValidation("worker", email, [flags EXCEPT !.check_smtp = UseSmtp(@, is_open)])
    /\ UNCHANGED << breakerVars, batchVars, splitVars, cacheVars, chunkVars >>

\* STEP 1: _validate_format
SyntaxStage(format_ok) ==
    /\ v_pc = "syntax"
    /\ h_trace' = Append(h_trace, "syntax")
    /\ IF ~format_ok
       THEN Stop("undeliverable", "Invalid email format", "Invalid Email")
       ELSE /\ v_result' = [v_result EXCEPT !.general.domain = Domain(v_email)]
            /\ v_pc' = "mx"
            /\ UNCHANGED h_stopped
    /\ UNCHANGED << v_args, v_mx_records, h_smtp_ran, h_rcpt, h_synth, h_between,
                    breakerVars, batchVars, splitVars, cacheVars, chunkVars >>

\* STEP 2: mx_records = []; if check_mx: _get_mx_records under DNS_TIMEOUT
MxStage(answer) ==
    /\ v_pc = "mx"
    /\ IF ~v_flags.check_mx
       THEN /\ v_pc' = "attributes"
            /\ UNCHANGED << v_mx_records, v_result, h_stopped, h_trace >>
       ELSE /\ h_trace' = Append(h_trace, "mx")
            /\ CASE answer = "timeout" ->
                    /\ Stop("unknown", "DNS lookup timeout", "Timeout")
                    /\ UNCHANGED v_mx_records
              [] answer = "none" ->
                    /\ Stop("undeliverable", "No MX records found", "Invalid Domain")
                    /\ UNCHANGED v_mx_records
              [] OTHER ->
                    /\ v_mx_records' = TRUE
                    /\ v_pc' = "attributes"
                    /\ UNCHANGED << v_result, h_stopped >>
    /\ UNCHANGED << v_args, h_smtp_ran, h_rcpt, h_synth, h_between,
                    breakerVars, batchVars, splitVars, cacheVars, chunkVars >>

\* STEP 3: if check_disposable: _check_email_attributes; the attributes are
\* not stored in the result
AttributesStage(disposable) ==
    /\ v_pc = "attributes"
    /\ IF ~v_flags.check_disposable
       THEN /\ v_pc' = "blacklist"
            /\ UNCHANGED << v_result, h_stopped, h_trace >>
       ELSE /\ h_trace' = Append(h_trace, "attributes")
            /\ IF disposable
               THEN Stop("undeliverable", "Disposable email address", "Disposable Email")
               ELSE /\ v_pc' = "blacklist"
                    /\ UNCHANGED << v_result, h_stopped >>
    /\ UNCHANGED << v_args, v_mx_records, h_smtp_ran, h_rcpt, h_synth, h_between,
                    breakerVars, batchVars, splitVars, cacheVars, chunkVars >>

\* STEP 4: if check_blacklist: _get_ip_addresses, _check_blacklists
BlacklistStage(answer) ==
    /\ v_pc = "blacklist"
    /\ IF ~v_flags.check_blacklist
       THEN /\ v_pc' = "smtp"
            /\ UNCHANGED << v_result, h_stopped, h_trace >>
       ELSE /\ h_trace' = Append(h_trace, "blacklist")
            /\ IF answer = "listed"
               THEN Stop("undeliverable", "Domain blacklisted", "Blacklisted")
               ELSE /\ v_pc' = "smtp"
                    /\ UNCHANGED << v_result, h_stopped >>
    /\ UNCHANGED << v_args, v_mx_records, h_smtp_ran, h_rcpt, h_synth, h_between,
                    breakerVars, batchVars, splitVars, cacheVars, chunkVars >>

\* STEP 5: if check_smtp and mx_records: _verify_smtp opens its connection
\* (smtp.connect) under the semaphore, which one validation always gets
SmtpStage ==
    /\ v_pc = "smtp"
    /\ IF v_flags.check_smtp /\ v_mx_records
       THEN /\ v_pc' = "smtp_session"
            /\ h_smtp_ran' = TRUE
            /\ h_trace' = Append(h_trace, "smtp")
       ELSE /\ v_pc' = "catch_all"
            /\ UNCHANGED << h_smtp_ran, h_trace >>
    /\ UNCHANGED << v_args, v_mx_records, v_result, h_stopped, h_rcpt, h_synth,
                    h_between, breakerVars, batchVars, splitVars, cacheVars, chunkVars >>

\* the status of a result of _verify_smtp with exists False
SmtpFailureStatus(sub_status) ==
    IF sub_status \in { "Timeout", "No Connect", "Unavailable SMTP" }
    THEN "unknown" ELSE "undeliverable"

\* the sub_status values _verify_smtp returns with exists False
SmtpFailures ==
    { "Timeout", "Unavailable SMTP", "Invalid SMTP", "Invalid Domain", "Rejected Email" }

\* the sub_status values _verify_smtp returns when connect, helo or mail fails
\* or a command times out, before any reply to RCPT TO
ConnectFailures == { "Timeout", "Invalid SMTP", "Invalid Domain" }

\* the replies to RCPT TO tried, and what their text mentions
RcptCodes == { "250", "421", "450", "451", "550", "551", "552", "553", "554", "500" }
RcptMessages == { "", "mailbox unavailable", "blocked by spamhaus", "dns failure" }

\* _verify_smtp after RCPT TO: "exists" or the sub_status returned. A reply
\* raised as SMTPResponseException is handled by lines 423-439 (the branch
\* that reads the unbound local "code" ends in the outer handler with
\* Invalid SMTP), a reply returned by rcpt by lines 445-463.
verify_smtp_reply(code, raised, message) ==
    IF raised
    THEN CASE code = "450" -> "Unavailable SMTP"
           [] code = "451" -> "Invalid SMTP"
           [] code = "550" -> IF message = "blocked by spamhaus"
                              THEN "Invalid SMTP" ELSE "Rejected Email"
           [] OTHER -> "Invalid SMTP"
    ELSE CASE code = "250" -> "exists"
           [] code = "450" -> "Unavailable SMTP"
           [] code = "550" -> "Rejected Email"
           [] code = "553" -> "Rejected Email"
           [] code = "552" -> "exists"
           [] code = "554" -> IF message = "dns failure"
                              THEN "Invalid Domain" ELSE "Invalid SMTP"
           [] OTHER -> "Invalid SMTP"

\* the "reason" of the result of _verify_smtp after RCPT TO: the text of the
\* reply, or the text of the UnboundLocalError in the branch that reads "code"
verify_smtp_reason(code, raised, message) ==
    IF raised /\ code \notin { "450", "451", "550" }
    THEN "text of the exception" ELSE message

\* the "reason" of a result of _verify_smtp that had no reply to RCPT TO: a
\* fixed text for a timeout, the text of the exception otherwise
ConnectReason(answer) ==
    IF answer = "Timeout" THEN "Connection timeout" ELSE "text of the exception"

\* a STEP 5 that called record_smtp_timeout when its session ended
SmtpBreakerCounts ==
    /\ smtp_timeout_failures' = IntOrZero(smtp_timeout_failures) + 1
    /\ smtp_last_timeout' = smtp_total_timeouts_historical + 1
    /\ smtp_total_timeouts_historical' = smtp_total_timeouts_historical + 1
    /\ ttl_failures' = key_expiry
    /\ ttl_last_timeout' = key_expiry
    /\ UNCHANGED << smtp_circuit_status, ttl_status, readVars, settingsVars, rec_pc,
                    current_failures,
                    current_status, watch_dirty, h_commits, h_retried >>

\* what STEP 5 does to the breaker when its session ends: validate_email and
\* _verify_smtp name no circuit breaker and call none of its methods, so every
\* outcome (timeout, failed connection, reply to RCPT TO) leaves the keys alone
SmtpBreakerEffect == UNCHANGED breakerVars

\* what validate_email does with the outcome of STEP 5; reason is
\* smtp_result.get("reason", "Email does not exist"), and every result with
\* exists False has the key
SmtpReturn(answer, reason) ==
    CASE answer = "wait_timeout" -> Stop("unknown", "SMTP validation timeout", "Timeout")
      [] answer = "exists" ->
            /\ v_pc' = "catch_all"
            /\ UNCHANGED << v_result, h_stopped >>
      [] OTHER -> Stop(SmtpFailureStatus(answer), reason, answer)

\* the end of STEP 5 without a reply to RCPT TO: asyncio.TimeoutError of
\* wait_for ("wait_timeout") or a result with exists False and a sub_status
SmtpAnswer(answer) ==
    /\ v_pc = "smtp_session"
    /\ SmtpReturn(answer, ConnectReason(answer))
    /\ SmtpBreakerEffect
    /\ UNCHANGED << v_args, v_mx_records, h_smtp_ran, h_trace, h_rcpt, h_synth,
                    h_between, batchVars, splitVars, cacheVars, chunkVars >>

\* the end of STEP 5 with a reply to RCPT TO for the address
SmtpRcpt(code, raised, message) ==
    /\ v_pc = "smtp_session"
    /\ raised => code # "250"
    /\ h_rcpt' = code
    /\ SmtpReturn(verify_smtp_reply(code, raised, message),
                  verify_smtp_reason(code, raised, message))
    /\ SmtpBreakerEffect
    /\ UNCHANGED << v_args, v_mx_records, h_smtp_ran, h_trace, h_synth,
                    h_between, batchVars, splitVars, cacheVars, chunkVars >>

\* STEP 6: if check_catch_all and mx_records: _check_catch_all opens its own
\* connection (smtp.connect); else the result is marked deliverable
CatchAllStage ==
    /\ v_pc = "catch_all"
    /\ IF v_flags.check_catch_all /\ v_mx_records
       THEN /\ v_pc' = "catch_all_session"
            /\ h_trace' = Append(h_trace, "catch_all")
            /\ UNCHANGED v_result
       ELSE /\ v_pc' = "final"
            /\ v_result' =
                LET r == [v_result EXCEPT !.status = "deliverable",
                                          !.general.reason = "Basic validations passed",
                                          !.sub_status = "None"]
                IN [r EXCEPT !.risk_level = calculate_risk_level(r)]
            /\ UNCHANGED h_trace
    /\ UNCHANGED << v_args, v_mx_records, h_smtp_ran, h_stopped, h_rcpt, h_synth,
                    h_between, breakerVars, batchVars, splitVars, cacheVars, chunkVars >>

\* what validate_email does with is_catch_all
CatchAllReturn(is_catch_all) ==
    /\ v_pc' = "final"
    /\ v_result' =
        LET r == [v_result EXCEPT !.attributes.catch_all = is_catch_all] IN
        IF is_catch_all
        THEN [r EXCEPT !.status = "risky", !.general.reason = "Catch-all domain",
                       !.sub_status = "Low Deliverability", !.risk_level = "high"]
        ELSE LET d == [r EXCEPT !.status = "deliverable",
                                !.general.reason = "All validations passed",
                                !.sub_status = "None"]
             IN [d EXCEPT !.risk_level = calculate_risk_level(d)]

\* the end of STEP 6 without a reply to RCPT TO: connect, helo or mail failed
\* or timed out and _check_catch_all returns False
CatchAllAnswer(is_catch_all) ==
    /\ v_pc = "catch_all_session"
    /\ CatchAllReturn(is_catch_all)
    /\ UNCHANGED << v_args, v_mx_records, h_smtp_ran, h_stopped, h_trace, h_rcpt,
                    h_synth, h_between, breakerVars, batchVars, splitVars, cacheVars, chunkVars >>

\* _check_catch_all after RCPT TO for the made-up address: return code == 250;
\* a reply raised as an exception returns False
check_catch_all_reply(code, raised) == ~raised /\ code = "250"

\* the end of STEP 6 with a reply to RCPT TO for the made-up address
CatchAllRcpt(code, raised) ==
    /\ v_pc = "catch_all_session"
    /\ raised => code # "250"
    /\ h_synth' = code
    /\ h_probed' = h_probed \cup { Domain(v_email) }
    /\ CatchAllReturn(check_catch_all_reply(code, raised))
    /\ UNCHANGED << v_args, v_mx_records, h_smtp_ran, h_stopped, h_trace, h_rcpt,
                    h_repeat, breakerVars, batchVars, splitVars, cacheVars, chunkVars >>

\* is_valid of the final result, were the assignment left out
FinalIsValidKept(result) == result.is_valid

\* result.is_valid = True
FinalIsValid(result) == TRUE

\* "Final result": is_valid, deliverability_score, return result
FinalResult ==
    /\ v_pc = "final"
    /\ v_pc' = "done"
    /\ v_result' =
        LET r == [v_result EXCEPT !.is_valid = FinalIsValid(v_result)] IN
        [r EXCEPT !.deliverability_score = calculate_deliverability_score(r)]
    /\ UNCHANGED << v_args, v_mx_records, h_smtp_ran, h_stopped, h_trace, h_rcpt,
                    h_synth, h_between, breakerVars, batchVars, splitVars, cacheVars, chunkVars >>

\* an exception no stage expects is raised inside the try block of
\* validate_email, at any point after the syntax check
UnexpectedError ==
    /\ v_pc \in { "mx", "attributes", "blacklist", "smtp", "smtp_session",
                  "catch_all", "catch_all_session", "final" }
    /\ v_caller # "dns"
    /\ Handler
    /\ UNCHANGED << v_args, v_mx_records, h_smtp_ran, h_trace, h_rcpt, h_synth,
                    h_between, breakerVars, batchVars, splitVars, cacheVars, chunkVars >>

\* the caller has the result
ReturnResult ==
    /\ v_pc = "done"
    /\ v_pc' = "idle"
    /\ v_caller' = "direct"
    /\ v_email' = NoEmail
    /\ v_flags' = Flags(TRUE)
    /\ v_mx_records' = FALSE
    /\ v_result' = InitialResult
    /\ h_smtp_ran' = FALSE
    /\ h_stopped' = FALSE
    /\ h_trace' = << >>
    /\ h_rcpt' = ""
    /\ h_synth' = ""
    /\ h_repeat' = FALSE
    /\ UNCHANGED << h_probed, breakerVars, batchVars, splitVars, cacheVars, chunkVars >>

(***************************************************************************)
(* DNS-only validator: app/services/dns_validator.py                       *)
(***************************************************************************)

\* the entries of the dict _perform_additional_checks returns
AdditionalChecks == 4

\* _calculate_confidence_score, in hundredths: 0.4 for MX, 0.2 for A, 0.2 for
\* SPF and 0.2 times the fraction of the additional checks that hold, rounded
\* to two places. For each of the 40 inputs int(round(score, 2) * 100) is the
\* integer below, and score >= 0.8 and score >= 0.5 agree with >= 80 and >= 50.
calculate_confidence_score(has_mx, has_a, has_spf, passed) ==
    (IF has_mx THEN 40 ELSE 0) + (IF has_a THEN 20 ELSE 0) + (IF has_spf THEN 20 ELSE 0)
        + (passed * 20) \div AdditionalChecks

\* the status block of validate: lines 151-171
DnsStatus(r, has_mx, confidence_score) ==
    IF ~has_mx
    THEN [r EXCEPT !.status = "undeliverable", !.general.reason = "No MX records found",
                   !.sub_status = "Invalid Domain"]
    ELSE IF confidence_score >= 80
    THEN [r EXCEPT !.status = "deliverable", !.is_valid = TRUE,
                   !.general.reason = "High confidence in domain validity",
                   !.risk_level = "low"]
    ELSE IF confidence_score >= 50
    THEN [r EXCEPT !.status = "risky", !.is_valid = TRUE,
                   !.general.reason = "Medium confidence in domain validity",
                   !.sub_status = "Low Deliverability", !.risk_level = "medium"]
    ELSE [r EXCEPT !.status = "undeliverable",
                   !.general.reason = "Low confidence in domain validity",
                   !.sub_status = "Invalid Domain", !.risk_level = "high"]

\* the score block of validate: lines 173-187
DnsScore(r, confidence_score, is_catch_all) ==
    LET base_score == Min(confidence_score, 80) IN
    IF is_catch_all
    THEN [r EXCEPT !.status = "risky",
                   !.general.reason = "Catch-all domain detected via DNS",
                   !.sub_status = "Low Deliverability", !.risk_level = "medium",
                   !.deliverability_score = Min(base_score, 50)]
    ELSE [r EXCEPT !.deliverability_score = base_score]

\* DNSValidator.validate for a domain that is neither an example domain nor disposable
DnsChecked(dns, attrs) ==
    LET has_mx == dns.has_mx
        passed == IF has_mx THEN dns.passed ELSE 0
        is_catch_all == has_mx /\ dns.likely_catch_all
        confidence_score == calculate_confidence_score(has_mx, dns.has_a, dns.has_spf, passed)
        r0 == [InitialResult EXCEPT !.sub_status = "None", !.general.domain = "domain",
                                    !.attributes.catch_all = is_catch_all]
        r1 == DnsScore(DnsStatus(r0, has_mx, confidence_score), confidence_score, is_catch_all)
    IN [r1 EXCEPT !.attributes = [attrs EXCEPT !.catch_all = is_catch_all,
                                               !.disposable = FALSE,
                                               !.mailbox_full = FALSE]]

\* DNSValidator.validate, the result by the kind of the address
DnsResult(kind, dns, attrs) ==
    CASE kind = "no_split" ->
            [InitialResult EXCEPT !.status = "undeliverable", !.sub_status = "Invalid Email",
                                  !.general.reason = "Invalid email format"]
      [] kind = "example" ->
            [InitialResult EXCEPT !.status = "risky", !.is_valid = TRUE,
                                  !.general.domain = "domain",
                                  !.general.reason = "Example/Test domain",
                                  !.sub_status = "Low Deliverability",
                                  !.risk_level = "high", !.deliverability_score = 40]
      [] kind = "disposable" ->
            [InitialResult EXCEPT !.status = "undeliverable", !.is_valid = FALSE,
                                  !.general.domain = "domain",
                                  !.general.reason = "Disposable email domain",
                                  !.sub_status = "Disposable Email",
                                  !.risk_level = "high", !.deliverability_score = 0]
      [] kind = "raises" ->
            [InitialResult EXCEPT !.general.reason = "DNS validation error",
                                  !.sub_status = "Invalid Domain"]
      [] OTHER -> DnsChecked(dns, attrs)

\* the answers of the DNS to validate
DnsAnswers ==
    [has_mx : BOOLEAN, has_a : BOOLEAN, has_spf : BOOLEAN,
     passed : 0 .. AdditionalChecks, likely_catch_all : BOOLEAN]

\* the attributes of the address that validate derives from its text
AddressAttributes ==
    { a \in [free_email : BOOLEAN, role_account : BOOLEAN, disposable : {FALSE},
             catch_all : {FALSE}, has_plus_tag : BOOLEAN, mailbox_full : {FALSE},
             no_reply : BOOLEAN] : TRUE }

\* the calls tried: an address that does not split, one at an example domain,
\* one at a disposable domain, one that makes validate raise, and every
\* combination of answers and attributes for the rest
DnsCalls ==
    ({ "no_split", "example", "disposable", "raises" }
        \X { [has_mx |-> FALSE, has_a |-> FALSE, has_spf |-> FALSE, passed |-> 0,
              likely_catch_all |-> FALSE] }
        \X { DefaultAttributes })
    \cup ({ "normal" } \X DnsAnswers \X AddressAttributes)

\* POST /test-dns-validation: dns_validator.validate(email)
validate(kind, dns, attrs) ==
    /\ v_pc = "idle"
    /\ v_pc' = "done"
    /\ v_caller' = "dns"
    /\ v_result' = DnsResult(kind, dns, attrs)
    /\ UNCHANGED << v_flags, v_email, v_mx_records, h_smtp_ran, h_stopped, h_trace,
                    h_rcpt, h_synth, h_probed, h_repeat,
                    breakerVars, batchVars, splitVars, cacheVars, chunkVars >>

(***************************************************************************)
(* The result caches: CacheService (app/services/cache_service.py) and the *)
(* local/Redis cache of backend/validate_emails.py                         *)
(***************************************************************************)

\* the five caches of CacheService, one key each: one email, one domain
CacheKinds == { "full", "mx", "blacklist", "catch_all", "disposable" }
\* get_cached_result, get_cached_mx_records, get_cached_blacklist_result store JSON
JsonKinds == { "full", "mx", "blacklist" }
\* the key of the backend script: email:{email}
BackendKey == "email"
CacheKeys == CacheKinds \cup { BackendKey }

\* the values handed to the writes: a result, a list or a dict for the JSON
\* caches, a bool for catch_all and disposable
CacheValues(kind) == IF kind \in JsonKinds THEN { "result" } ELSE { "True", "False" }

\* json.dumps(result)
json_dumps(value) == CASE value = "result" -> "json(result)"
\* json.loads(cached)
json_loads(cached) == CASE cached = "json(result)" -> "result"
\* "1" if is_catch_all else "0"
FlagText(value) == IF value = "True" THEN "1" ELSE "0"

\* the text a write stores under the key
Encoded(kind, value) == IF kind \in JsonKinds THEN json_dumps(value) ELSE FlagText(value)
\* the value a read makes of what GET returned
Decoded(kind, cached) ==
    IF kind \in JsonKinds
    THEN IF cached # NoKey THEN json_loads(cached) ELSE "None"
    ELSE IF cached = "1" THEN "True" ELSE "False"

NoOp == [name |-> "none", kind |-> "full", value |-> "None"]

\* the settings tried: every cache enabled (config.py), or one switched off
EnabledChoices == { CacheKinds } \cup { CacheKinds \ { kind } : kind \in CacheKinds }

\* get_cached_*, cache_*: the enable check, then _ensure_connection
CacheCall(name, kind, value) ==
    /\ c_program = "service"
    /\ c_pc = "idle"
    /\ c_op' = [name |-> name, kind |-> kind, value |-> value]
    /\ c_pc' = IF kind \in c_enabled THEN "ensure" ELSE "returned"
    /\ UNCHANGED << c_program, c_store, c_server, c_redis, c_enabled, c_ret,
                    REDIS_AVAILABLE, local_cache, h_c_failed,
                    breakerVars, batchVars, splitVars, pipeVars, chunkVars >>

get_cached(kind) == CacheCall("get", kind, "None")

cache_write(kind, value) == CacheCall("set", kind, value)

\* _ensure_connection: _connect when there is no client, then ping and info; on
\* an exception _connect again (from_url returns a client, or raises and
\* leaves None)
ensure_connection(first, second) ==
    /\ c_pc = "ensure"
    /\ LET client == IF c_redis THEN TRUE ELSE first
       IN  IF client /\ c_server = "up"
           THEN /\ c_redis' = client
                /\ c_pc' = "command"
           ELSE /\ c_redis' = second
                /\ c_pc' = "reping"
    /\ UNCHANGED << c_program, c_store, c_server, c_enabled, c_op, c_ret,
                    REDIS_AVAILABLE, local_cache, h_c_failed,
                    breakerVars, batchVars, splitVars, pipeVars, chunkVars >>

\* if not await self._ensure_connection(): return None
ConnectionLost ==
    /\ c_pc' = "returned"
    /\ c_ret' = "None"
    /\ h_c_failed' = "connection"
    /\ UNCHANGED c_store

\* _ensure_connection: the second ping
ensure_connection_again ==
    /\ c_pc = "reping"
    /\ IF c_redis /\ c_server = "up"
       THEN /\ c_pc' = "command"
            /\ UNCHANGED << c_store, c_ret, h_c_failed >>
       ELSE ConnectionLost
    /\ UNCHANGED << c_program, c_server, c_redis, c_enabled, c_op,
                    REDIS_AVAILABLE, local_cache,
                    breakerVars, batchVars, splitVars, pipeVars, chunkVars >>

\* an exception leaves the operation
CommandErrorRaises ==
    /\ c_pc' = "raised"
    /\ h_c_failed' = "command"
    /\ UNCHANGED << c_store, c_ret >>

\* except Exception as e: logger.error(...); return None
CommandError ==
    /\ c_pc' = "returned"
    /\ c_ret' = "None"
    /\ h_c_failed' = "command"
    /\ UNCHANGED c_store

\* the try block of the operation: redis.get or redis.setex
CacheCommand ==
    /\ c_pc = "command"
    /\ IF c_server = "up"
       THEN /\ c_pc' = "returned"
            /\ IF c_op.name = "get"
               THEN /\ c_ret' = Decoded(c_op.kind, c_store[c_op.kind])
                    /\ UNCHANGED c_store
               ELSE /\ c_store' = [c_store EXCEPT ![c_op.kind] = Encoded(c_op.kind, c_op.value)]
                    /\ UNCHANGED c_ret
            /\ UNCHANGED h_c_failed
       ELSE CommandError
    /\ UNCHANGED << c_program, c_server, c_redis, c_enabled, c_op,
                    REDIS_AVAILABLE, local_cache,
                    breakerVars, batchVars, splitVars, pipeVars, chunkVars >>

\* the caller has the value and goes on
CacheReturn ==
    /\ c_pc = "returned"
    /\ c_pc' = "idle"
    /\ c_op' = NoOp
    /\ c_ret' = "None"
    /\ h_c_failed' = ""
    /\ UNCHANGED << c_program, c_store, c_server, c_redis, c_enabled,
                    REDIS_AVAILABLE, local_cache,
                    breakerVars, batchVars, splitVars, pipeVars, chunkVars >>

\* the Redis server goes away or comes back
redis_change ==
    /\ c_server' = IF c_server = "up" THEN "down" ELSE "up"
    /\ UNCHANGED << c_program, c_store, c_redis, c_enabled, c_pc, c_op, c_ret,
                    REDIS_AVAILABLE, local_cache, h_c_failed,
                    breakerVars, batchVars, splitVars, pipeVars, chunkVars >>

\* validate_emails.py: try: redis_client.get / setex ... except: pass
BackendPass ==
    /\ h_c_failed' = "command"
    /\ UNCHANGED c_store

\* validate_emails.py EmailValidator._get_cached_result
b_get_cached_result ==
    /\ c_program = "backend"
    /\ c_pc = "idle"
    /\ c_pc' = "returned"
    /\ c_op' = [name |-> "get", kind |-> BackendKey, value |-> "None"]
    /\ IF local_cache # NoKey
       THEN /\ c_ret' = local_cache
            /\ UNCHANGED << local_cache, c_store, h_c_failed >>
       ELSE IF REDIS_AVAILABLE
            THEN IF c_server = "up"
                 THEN /\ IF c_store[BackendKey] # NoKey
                         THEN /\ c_ret' = json_loads(c_store[BackendKey])
                              /\ local_cache' = json_loads(c_store[BackendKey])
                         ELSE /\ c_ret' = "None"
                              /\ UNCHANGED local_cache
                      /\ UNCHANGED << c_store, h_c_failed >>
                 ELSE /\ BackendPass
                      /\ c_ret' = "None"
                      /\ UNCHANGED local_cache
            ELSE /\ c_ret' = "None"
                 /\ UNCHANGED << local_cache, c_store, h_c_failed >>
    /\ UNCHANGED << c_program, c_server, c_redis, c_enabled, REDIS_AVAILABLE,
                    breakerVars, batchVars, splitVars, pipeVars, chunkVars >>

\* validate_emails.py EmailValidator._cache_result
b_cache_result(result) ==
    /\ c_program = "backend"
    /\ c_pc = "idle"
    /\ c_pc' = "returned"
    /\ c_op' = [name |-> "set", kind |-> BackendKey, value |-> result]
    /\ local_cache' = result
    /\ IF REDIS_AVAILABLE
       THEN IF c_server = "up"
            THEN /\ c_store' = [c_store EXCEPT ![BackendKey] = json_dumps(result)]
                 /\ UNCHANGED h_c_failed
            ELSE BackendPass
       ELSE UNCHANGED << c_store, h_c_failed >>
    /\ UNCHANGED << c_program, c_server, c_redis, c_enabled, c_ret, REDIS_AVAILABLE,
                    breakerVars, batchVars, splitVars, pipeVars, chunkVars >>

(***************************************************************************)
(* One batch in one worker process, validation by validation:              *)
(* process_emails (app/worker.py) and STEP 5 and STEP 6 of validate_email  *)
(***************************************************************************)

\* the validations of one chunk: asyncio.gather(*[validate_email(...) for email in chunk])
ChunkTasks == 1 .. chunk_size

\* the SMTP sessions open in the process: those of _verify_smtp and those of
\* _check_catch_all
Sessions == { t \in ChunkTasks : t_pc[t] \in { "verify", "catch_all" } }

\* an await that returns as soon as one validation has finished
GatherAnyDone == \E t \in ChunkTasks : t_pc[t] = "done"

\* await asyncio.gather(..., return_exceptions=True) returns when every
\* validation has returned or raised
GatherDone == \A t \in ChunkTasks : t_pc[t] = "done"

\* for i, chunk in enumerate(chunks): the next chunk, or the end of the loop
ChunkLoop ==
    IF ck_i < NumChunks
    THEN ck_i' = ck_i + 1 /\ ck_pc' = "begin"
    ELSE ck_pc' = "final" /\ UNCHANGED ck_i

\* circuit_open = self.validator.circuit_breaker.is_open; use_smtp = ...;
\* gather creates the validations of the chunk
ChunkOpen(smtp) ==
    /\ ck_pc = "begin"
    /\ validator_has_breaker
    /\ ck_pc' = "gather"
    /\ use_smtp' = smtp
    /\ t_pc' = [t \in 1 .. MaxChunkSize |-> IF t \in ChunkTasks THEN "start" ELSE "idle"]
    /\ UNCHANGED << chunk_size, ck_catch_all, ck_i, ck_stored, smtp_semaphore >>
    /\ UNCHANGED << breakerVars, batchVars, splitVars, pipeVars, cacheVars >>

\* the read of circuit_breaker raises (always when the attribute is missing):
\* except Exception: continue
ChunkOpenRaises ==
    /\ ck_pc = "begin"
    /\ ChunkLoop
    /\ UNCHANGED << chunk_size, ck_catch_all, use_smtp, ck_stored, t_pc,
                    smtp_semaphore >>
    /\ UNCHANGED << breakerVars, batchVars, splitVars, pipeVars, cacheVars >>

\* validate_email returns at STEP 1 to STEP 4, or from its exception handler
EarlyReturn(t) ==
    /\ t_pc[t] = "start"
    /\ t_pc' = [t_pc EXCEPT ![t] = "done"]
    /\ UNCHANGED << chunk_size, ck_catch_all, ck_pc, ck_i, use_smtp, ck_stored,
                    smtp_semaphore >>
    /\ UNCHANGED << breakerVars, batchVars, splitVars, pipeVars, cacheVars >>

\* STEP 5: async with self._smtp_semaphore: _verify_smtp connects
Acquire(t) ==
    /\ t_pc[t] = "start"
    /\ use_smtp
    /\ smtp_semaphore > 0
    /\ smtp_semaphore' = smtp_semaphore - 1
    /\ t_pc' = [t_pc EXCEPT ![t] = "verify"]
    /\ UNCHANGED << chunk_size, ck_catch_all, ck_pc, ck_i, use_smtp, ck_stored >>
    /\ UNCHANGED << breakerVars, batchVars, splitVars, pipeVars, cacheVars >>

\* STEP 5 is skipped: check_smtp is false
NoSmtp(t) ==
    /\ t_pc[t] = "start"
    /\ ~use_smtp
    /\ t_pc' = [t_pc EXCEPT ![t] = "after_smtp"]
    /\ UNCHANGED << chunk_size, ck_catch_all, ck_pc, ck_i, use_smtp, ck_stored,
                    smtp_semaphore >>
    /\ UNCHANGED << breakerVars, batchVars, splitVars, pipeVars, cacheVars >>

\* a STEP 5 that releases the semaphore only when the address exists
VerifyEndKeepsPermit(t, exists) ==
    /\ t_pc[t] = "verify"
    /\ smtp_semaphore' = IF exists THEN smtp_semaphore + 1 ELSE smtp_semaphore
    /\ t_pc' = [t_pc EXCEPT ![t] = IF exists THEN "after_smtp" ELSE "done"]
    /\ UNCHANGED << chunk_size, ck_catch_all, ck_pc, ck_i, use_smtp, ck_stored >>
    /\ UNCHANGED << breakerVars, batchVars, splitVars, pipeVars, cacheVars >>

\* _verify_smtp closes its session (finally: smtp.quit()) and the semaphore is
\* released; the validation returns unless the address exists
VerifyEnd(t, exists) ==
    /\ t_pc[t] = "verify"
    /\ smtp_semaphore' = smtp_semaphore + 1
    /\ t_pc' = [t_pc EXCEPT ![t] = IF exists THEN "after_smtp" ELSE "done"]
    /\ UNCHANGED << chunk_size, ck_catch_all, ck_pc, ck_i, use_smtp, ck_stored >>
    /\ UNCHANGED << breakerVars, batchVars, splitVars, pipeVars, cacheVars >>

\* STEP 6: _check_catch_all connects, outside the semaphore
CatchAllOpen(t) ==
    /\ t_pc[t] = "after_smtp"
    /\ ck_catch_all
    /\ t_pc' = [t_pc EXCEPT ![t] = "catch_all"]
    /\ UNCHANGED << chunk_size, ck_catch_all, ck_pc, ck_i, use_smtp, ck_stored,
                    smtp_semaphore >>
    /\ UNCHANGED << breakerVars, batchVars, splitVars, pipeVars, cacheVars >>

\* STEP 6 is skipped: the result is marked deliverable and returned
SkipCatchAll(t) ==
    /\ t_pc[t] = "after_smtp"
    /\ ~ck_catch_all
    /\ t_pc' = [t_pc EXCEPT ![t] = "done"]
    /\ UNCHANGED << chunk_size, ck_catch_all, ck_pc, ck_i, use_smtp, ck_stored,
                    smtp_semaphore >>
    /\ UNCHANGED << breakerVars, batchVars, splitVars, pipeVars, cacheVars >>

\* _check_catch_all closes its session; the final result is returned
CatchAllEnd(t) ==
    /\ t_pc[t] = "catch_all"
    /\ t_pc' = [t_pc EXCEPT ![t] = "done"]
    /\ UNCHANGED << chunk_size, ck_catch_all, ck_pc, ck_i, use_smtp, ck_stored,
                    smtp_semaphore >>
    /\ UNCHANGED << breakerVars, batchVars, splitVars, pipeVars, cacheVars >>

\* chunk_results = await asyncio.gather(...); all_results.extend(processed_results)
GatherReturns ==
    /\ ck_pc = "gather"
    /\ GatherDone
    /\ ck_pc' = "store"
    /\ UNCHANGED << chunk_size, ck_catch_all, ck_i, use_smtp, ck_stored, t_pc,
                    smtp_semaphore >>
    /\ UNCHANGED << breakerVars, batchVars, splitVars, pipeVars, cacheVars >>

\* await self.redis.setex(f"validation_results:{batch_id}", ..., json.dumps(progress))
ChunkStore ==
    /\ ck_pc = "store"
    /\ ck_stored' = ck_stored \cup { ck_i }
    /\ ChunkLoop
    /\ UNCHANGED << chunk_size, ck_catch_all, use_smtp, t_pc, smtp_semaphore >>
    /\ UNCHANGED << breakerVars, batchVars, splitVars, pipeVars, cacheVars >>

\* setex raises: except Exception: continue
ChunkStoreRaises ==
    /\ ck_pc = "store"
    /\ ChunkLoop
    /\ UNCHANGED << chunk_size, ck_catch_all, use_smtp, ck_stored, t_pc,
                    smtp_semaphore >>
    /\ UNCHANGED << breakerVars, batchVars, splitVars, pipeVars, cacheVars >>

(***************************************************************************)
(* Initial states and specifications                                       *)
(***************************************************************************)

InitBreakerVars ==
    /\ smtp_timeout_failures = NoCount
    /\ smtp_circuit_status = NoKey
    /\ smtp_last_timeout = 0
    /\ smtp_total_timeouts_historical = 0
    /\ smtp_total_dns_fallbacks_historical = 0
    /\ ttl_failures = 0
    /\ ttl_status = 0
    /\ ttl_last_timeout = 0
    /\ cb_ret = NoReturn
    /\ rec_pc = [p \in Procs |-> "idle"]
    /\ current_failures = [p \in Procs |-> 0]
    /\ current_status = [p \in Procs |-> NoKey]
    /\ watch_dirty = [p \in Procs |-> FALSE]
    /\ h_commits = 0
    /\ h_retried = FALSE

InitBatchVars ==
    /\ queue = << >>
    /\ dlq = {}
    /\ acked = {}
    /\ next_uuid = 1
    /\ n_requests = 0
    /\ n_foreign = 0
    /\ validation_results = [i \in Ids |-> NoSnapshot]
    /\ multi_batch = [i \in Ids |-> NoTracking]
    /\ batch_parent = [i \in Ids |-> 0]
    /\ sub_pc = "idle"
    /\ sub_batches = << >>
    /\ sub_batch_ids = << >>
    /\ sub_request_id = 0
    /\ sub_flags = Flags(TRUE)
    /\ sub_k = 0
    /\ sub_resp = "none"
    /\ w_pc = [w \in Workers |-> "idle"]
    /\ w_msg = [w \in Workers |-> NoMsg]
    /\ w_i = [w \in Workers |-> 0]
    /\ all_results = [w \in Workers |-> << >>]
    /\ circuit_open = [w \in Workers |-> FALSE]
    /\ ms_pc = "idle"
    /\ n_multi_calls = 0
    /\ ms_tracking = NoTracking
    /\ ms_idx = 0
    /\ ms_all_complete = TRUE
    /\ ms_total_processed = 0
    /\ ms_batch_statuses = << >>
    /\ ms_resp = NoTracking
    /\ h_faults = 0
    /\ h_dropped = [i \in Ids |-> 0]
    /\ h_chunks_done = [i \in Ids |-> 0]
    /\ h_child_complete = << >>
    /\ h_req = NoRequest
    /\ h_published = << >>
    /\ h_malformed = {}
    /\ h_deliveries = [i \in Ids |-> 0]
    /\ h_validated = [i \in Ids |-> {}]
    /\ h_twice = FALSE
    /\ h_raised = {}

InitSplitVars ==
    /\ split_pc = "input"
    /\ split_emails = << >>
    /\ split_batches = << >>

InitPipeVars ==
    /\ v_pc = "idle"
    /\ v_caller = "direct"
    /\ v_flags = Flags(TRUE)
    /\ v_mx_records = FALSE
    /\ v_result = InitialResult
    /\ v_email = NoEmail
    /\ h_smtp_ran = FALSE
    /\ h_stopped = FALSE
    /\ h_trace = << >>
    /\ h_rcpt = ""
    /\ h_synth = ""
    /\ h_probed = {}
    /\ h_repeat = FALSE

\* CacheService.__init__ with every cache enabled; nothing cached yet
InitCacheVars ==
    /\ c_program = "service"
    /\ c_store = [key \in CacheKeys |-> NoKey]
    /\ c_server = "up"
    /\ c_redis = TRUE
    /\ c_enabled = CacheKinds
    /\ c_pc = "idle"
    /\ c_op = NoOp
    /\ c_ret = "None"
    /\ REDIS_AVAILABLE = FALSE
    /\ local_cache = NoKey
    /\ h_c_failed = ""

\* before process_emails: no validation exists, every permit of
\* asyncio.Semaphore(settings.MAX_CONCURRENT_VALIDATIONS) is free
InitChunkTasks ==
    /\ ck_pc = "begin"
    /\ ck_i = 1
    /\ use_smtp = TRUE
    /\ ck_stored = {}
    /\ t_pc = [t \in 1 .. MaxChunkSize |-> "idle"]
    /\ smtp_semaphore = MAX_CONCURRENT_VALIDATIONS

\* the settings of config.py and the default flags
InitChunkVars ==
    /\ InitChunkTasks
    /\ chunk_size = WORKER_BATCH_SIZE
    /\ ck_catch_all = TRUE

\* settings.DNS_ONLY_MODE_ENABLED: bool = False
Init ==
    /\ InitBreakerVars
    /\ InitBatchVars
    /\ InitSplitVars
    /\ InitPipeVars
    /\ InitCacheVars
    /\ InitChunkVars
    /\ DNS_ONLY_MODE_ENABLED = FALSE
    /\ validator_has_breaker = FALSE

\* EmailValidator.__init__ assigns no circuit_breaker, so in the worker of this
\* repository validator_has_breaker is FALSE; TRUE is the worker run with the
\* validator that worker.py is written against.
InitBatch ==
    /\ InitBreakerVars
    /\ InitBatchVars
    /\ InitSplitVars
    /\ InitPipeVars
    /\ InitCacheVars
    /\ InitChunkVars
    /\ DNS_ONLY_MODE_ENABLED = FALSE
    /\ validator_has_breaker \in BOOLEAN

\* ---- SpecBreaker: the clients of the circuit breaker
NextBreaker ==
    \E p \in Procs :
        \/ Watch(p)
        \/ GetFailures(p)
        \/ GetStatus(p)
        \/ ExecCommit(p)
        \/ ExecWatchError(p)
        \/ reset(p)
        \/ open_circuit(p)

SpecBreaker == Init /\ [][NextBreaker]_vars

\* ---- SpecBreakerFair: SpecBreaker where a call of record_smtp_timeout that
\* has started takes its next command: each caller is a thread of its own that
\* runs the loop to its break
RecordStep(p) ==
    \/ Watch(p)
    \/ GetFailures(p)
    \/ GetStatus(p)
    \/ ExecCommit(p)
    \/ ExecWatchError(p)

SpecBreakerFair ==
    Init /\ [][NextBreaker]_vars /\ \A p \in Procs : WF_vars(RecordStep(p))

\* ---- SpecExpiry: one process records timeouts while the others reset, open
\* and read the breaker, and the clock of the key store expires the keys
Recorder == 1

NextExpiry ==
    \/ Watch(Recorder)
    \/ GetFailures(Recorder)
    \/ GetStatus(Recorder)
    \/ ExecCommit(Recorder)
    \/ ExecWatchError(Recorder)
    \/ \E p \in Procs \ { Recorder } :
        \/ reset(p)
        \/ open_circuit(p)
        \/ record_dns_fallback(p)
        \/ ReadIsOpen(p)
        \/ get_metrics(p)
    \/ \E aborts \in BOOLEAN : Tick(aborts)

SpecExpiry == Init /\ [][NextExpiry]_vars

\* ---- SpecChunk: one worker process handles one batch of NumChunks full
\* chunks; WORKER_BATCH_SIZE is a setting of the deployment, the flags come
\* with the message
InitChunk ==
    /\ InitBreakerVars
    /\ InitBatchVars
    /\ InitSplitVars
    /\ InitPipeVars
    /\ InitCacheVars
    /\ InitChunkTasks
    /\ chunk_size \in WORKER_BATCH_SIZE .. MaxChunkSize
    /\ ck_catch_all \in BOOLEAN
    /\ DNS_ONLY_MODE_ENABLED = FALSE
    /\ validator_has_breaker \in BOOLEAN

NextChunk ==
    \/ \E smtp \in BOOLEAN : ChunkOpen(smtp)
    \/ ChunkOpenRaises
    \/ \E t \in 1 .. MaxChunkSize :
        \/ EarlyReturn(t)
        \/ Acquire(t)
        \/ NoSmtp(t)
        \/ \E exists \in BOOLEAN : VerifyEnd(t, exists)
        \/ CatchAllOpen(t)
        \/ SkipCatchAll(t)
        \/ CatchAllEnd(t)
    \/ GatherReturns
    \/ ChunkStore
    \/ ChunkStoreRaises

SpecChunk == InitChunk /\ [][NextChunk]_vars

\* ---- SpecBatch: submission, queue, workers and status readers
NextBatch ==
    \/ \E n \in RequestSizes : ValidateBatch(n, Flags(TRUE))
    \/ \E n \in RequestSizes : ValidateBatchRaises(n, Flags(TRUE))
    \/ QueueBatch
    \/ QueueBatchRaises
    \/ CreateTracking
    \/ IndexBatch
    \/ TrackingRaises
    \/ \E n \in 0 .. MaxForeignEmails, bad \in 0 .. MaxForeignEmails, form \in Forms :
            PublishForeign(n, bad, form)
    \/ \E w \in Workers :
        \/ Receive(w)
        \/ ChunkBegin(w)
        \/ ChunkBeginRaises(w)
        \/ Gather(w)
        \/ StoreProgress(w)
        \/ StoreProgressRaises(w)
        \/ StoreFinal(w)
        \/ StoreFinalRaises(w)
        \/ Finish(w)
        \/ FinishRaises(w)
    \/ \E id \in Ids : MultiBegin(id)
    \/ MultiReadChild
    \/ MultiFinish
    \/ MultiReturn

SpecBatch == InitBatch /\ [][NextBatch]_vars

\* ---- SpecBatchFair: the requests of validate_batch and the workers, where
\* each worker takes its next step: the consumer callback of a worker is a task
\* of its event loop, run to its end for every message the broker delivers
WorkerStep(w) ==
    \/ Receive(w)
    \/ ChunkBegin(w)
    \/ ChunkBeginRaises(w)
    \/ Gather(w)
    \/ StoreProgress(w)
    \/ StoreProgressRaises(w)
    \/ StoreFinal(w)
    \/ StoreFinalRaises(w)
    \/ Finish(w)
    \/ FinishRaises(w)

NextBatchFair ==
    \/ \E n \in RequestSizes : ValidateBatch(n, Flags(TRUE))
    \/ \E n \in RequestSizes : ValidateBatchRaises(n, Flags(TRUE))
    \/ QueueBatch
    \/ QueueBatchRaises
    \/ CreateTracking
    \/ IndexBatch
    \/ TrackingRaises
    \/ \E w \in Workers : WorkerStep(w)

SpecBatchFair ==
    InitBatch /\ [][NextBatchFair]_vars /\ \A w \in Workers : WF_vars(WorkerStep(w))

\* ---- SpecDispatch: one validate_batch request of every size and with every
\* combination of flags, up to its answer
NextDispatch ==
    \/ \E n \in RequestSizes, flags \in FlagChoices : ValidateBatch(n, flags)
    \/ \E n \in RequestSizes, flags \in FlagChoices : ValidateBatchRaises(n, flags)
    \/ QueueBatch
    \/ QueueBatchRaises
    \/ CreateTracking
    \/ IndexBatch
    \/ TrackingRaises

SpecDispatch == InitBatch /\ [][NextDispatch]_vars

\* ---- SpecSplit: split_into_batches on every list of up to MaxSplitLen addresses
InitSplit ==
    /\ InitBreakerVars
    /\ InitBatchVars
    /\ InitPipeVars
    /\ InitCacheVars
    /\ InitChunkVars
    /\ DNS_ONLY_MODE_ENABLED = FALSE
    /\ validator_has_breaker = FALSE
    /\ split_pc = "input"
    /\ split_emails \in SplitInputs
    /\ split_batches = << >>

NextSplit == SplitCall

SpecSplit == InitSplit /\ [][NextSplit]_vars

\* ---- SpecPipeline: validations started by the routes and by a worker chunk,
\* while the breaker is opened and reset; DNS_ONLY_MODE_ENABLED is a setting of
\* the deployment
InitPipeline ==
    /\ InitBreakerVars
    /\ InitBatchVars
    /\ InitSplitVars
    /\ InitPipeVars
    /\ InitCacheVars
    /\ InitChunkVars
    /\ DNS_ONLY_MODE_ENABLED \in BOOLEAN
    /\ validator_has_breaker \in BOOLEAN

NextPipeline ==
    \/ \E email \in BreakerEmails, flags \in FlagChoices : validate_email(email, flags)
    \/ \E email \in BreakerEmails, flags \in FlagChoices : WorkerValidate(email, flags)
    \/ SyntaxStage(validate_format(v_email))
    \/ \E answer \in { "timeout", "none", "some" } : MxStage(answer)
    \/ AttributesStage(check_email_attributes(LocalPart(v_email), Domain(v_email)).disposable)
    \/ \E answer \in { "clean", "listed" } : BlacklistStage(answer)
    \/ SmtpStage
    \/ \E answer \in { "wait_timeout" } \cup ConnectFailures : SmtpAnswer(answer)
    \/ \E code \in RcptCodes, raised \in BOOLEAN, message \in RcptMessages :
            SmtpRcpt(code, raised, message)
    \/ CatchAllStage
    \/ CatchAllAnswer(FALSE)
    \/ \E code \in RcptCodes, raised \in BOOLEAN : CatchAllRcpt(code, raised)
    \/ FinalResult
    \/ UnexpectedError
    \/ \E call \in DnsCalls : validate(call[1], call[2], call[3])
    \/ ReturnResult
    \/ \E p \in Procs : open_circuit(p)
    \/ \E p \in Procs : reset(p)

SpecPipeline == InitPipeline /\ [][NextPipeline]_vars

\* ---- SpecCache: the cache operations of the service, or those of the backend
\* script, while the Redis server goes away and comes back. validate_emails.py
\* sets REDIS_AVAILABLE from a ping when the module is loaded; the script may
\* find a result that an earlier run stored.
InitCache ==
    /\ InitBreakerVars
    /\ InitBatchVars
    /\ InitSplitVars
    /\ InitPipeVars
    /\ InitChunkVars
    /\ DNS_ONLY_MODE_ENABLED = FALSE
    /\ validator_has_breaker = FALSE
    /\ c_program \in { "service", "backend" }
    /\ c_server \in { "up", "down" }
    /\ c_redis \in BOOLEAN
    /\ c_enabled \in EnabledChoices
    /\ c_store \in { [key \in CacheKeys |-> IF key = BackendKey THEN stored ELSE NoKey] :
                        stored \in { NoKey, json_dumps("result") } }
    /\ REDIS_AVAILABLE = (c_program = "backend" /\ c_server = "up")
    /\ (c_program = "backend") => (c_redis /\ c_enabled = CacheKinds)
    /\ (c_program = "service") => (c_store[BackendKey] = NoKey)
    /\ c_pc = "idle"
    /\ c_op = NoOp
    /\ c_ret = "None"
    /\ local_cache = NoKey
    /\ h_c_failed = ""

NextCache ==
    \/ \E kind \in CacheKinds : get_cached(kind)
    \/ \E kind \in CacheKinds : \E value \in CacheValues(kind) : cache_write(kind, value)
    \/ \E first, second \in BOOLEAN : ensure_connection(first, second)
    \/ ensure_connection_again
    \/ CacheCommand
    \/ CacheReturn
    \/ redis_change
    \/ b_get_cached_result
    \/ b_cache_result("result")

SpecCache == InitCache /\ [][NextCache]_vars

\* ---- SpecStages: validate_email called by the routes for every address of
\* Emails and every combination of flags, one call after the other, in the
\* deployment of this repository
NextStages ==
    \/ \E email \in Emails, flags \in FlagChoices : validate_email(email, flags)
    \/ RepeatValidation
    \/ SyntaxStage(validate_format(v_email))
    \/ \E answer \in { "timeout", "none", "some" } : MxStage(answer)
    \/ AttributesStage(check_email_attributes(LocalPart(v_email), Domain(v_email)).disposable)
    \/ \E answer \in { "clean", "listed" } : BlacklistStage(answer)
    \/ SmtpStage
    \/ \E answer \in { "wait_timeout" } \cup ConnectFailures : SmtpAnswer(answer)
    \/ \E code \in RcptCodes, raised \in BOOLEAN, message \in RcptMessages :
            SmtpRcpt(code, raised, message)
    \/ CatchAllStage
    \/ CatchAllAnswer(FALSE)
    \/ \E code \in RcptCodes, raised \in BOOLEAN : CatchAllRcpt(code, raised)
    \/ FinalResult
    \/ UnexpectedError
    \/ ReturnResult

SpecStages == Init /\ [][NextStages]_vars

(***************************************************************************)
(* Claims                                                                  *)
(***************************************************************************)

IsPrefix(s, t) == Len(s) <= Len(t) /\ SubSeq(t, 1, Len(s)) = s

\* the ids of the stored snapshots
Stored == { id \in Ids : validation_results[id].present }

\* C1: counted from a reset breaker with no reset in between, the status
\* reads closed after each of the first threshold-1 committed
\* record_smtp_timeout calls and reads open once the threshold-th has
\* committed, for every interleaving of the calling processes.
C1_OpensAtThreshold ==
    h_commits >= 0 =>
        /\ (h_commits < failure_threshold => MetricsStatus = "closed" /\ ~is_open)
        /\ (h_commits >= failure_threshold => MetricsStatus = "open" /\ is_open)

\* the threshold-th commit has happened after a write conflict and the breaker reads open
C1_Witness ==
    h_commits = failure_threshold /\ h_retried /\ smtp_circuit_status = "open"

\* C3: no failure event is lost under concurrent writers: with no reset in
\* between, consecutive_failures has grown by exactly the number of
\* record_smtp_timeout calls that have committed.
C3_NoLostUpdate ==
    h_commits >= 0 => MetricsConsecutive = h_commits

\* several calls have returned, one of them after a retry, and none is in progress
C3_Witness ==
    /\ h_commits >= 3
    /\ h_retried
    /\ \A p \in Procs : rec_pc[p] = "idle"
    /\ smtp_timeout_failures = h_commits

\* C4 (as stated): for every stored snapshot, processedCount = totalEmails
\* holds if and only if isComplete = true.
C4_CompleteIffAllProcessed ==
    \A id \in Stored :
        (validation_results[id].processedCount = validation_results[id].totalEmails)
            <=> validation_results[id].isComplete

C6_CompletedIffAllChildren ==
    (ms_pc = "returned" /\ ms_resp.present) =>
        /\ Len(h_child_complete) = Len(ms_resp.batchIds)
        /\ (ms_resp.status = "completed")
                <=> (\A k \in 1 .. Len(h_child_complete) : h_child_complete[k])
        /\ (ms_resp.status = "completed") =>
                \A k \in 1 .. Len(ms_resp.batchIds) :
                    /\ validation_results[ms_resp.batchIds[k]].present
                    /\ validation_results[ms_resp.batchIds[k]].isComplete

\* the call returns completed for a request of two children
C6_Witness ==
    /\ ms_pc = "returned"
    /\ ms_resp.present
    /\ Len(ms_resp.batchIds) >= 2
    /\ ms_resp.status = "completed"

Flatten(batches) ==
    LET RECURSIVE Go(_)
        Go(k) == IF k = 0 THEN << >> ELSE Go(k - 1) \o batches[k]
    IN Go(Len(batches))

\* the cap the claim names for a list of n > 20 emails
C7_Cap(n) ==
    IF n <= 100 THEN 30 ELSE IF n <= 200 THEN 50 ELSE IF n <= 500 THEN 100
    ELSE IF n <= 1000 THEN 150 ELSE 200

C2_NoSmtpSessionWhileOpen ==
    v_pc \in { "smtp_session", "catch_all_session" } => smtp_circuit_status # "open"

\* C8 (as stated): every returned result whose status is Undeliverable has
\* deliverability_score 0, from the pipeline and from the DNS-only validator.
C8_UndeliverableScoreZero ==
    (v_pc = "done" /\ v_result.status = "undeliverable")
        => v_result.deliverability_score = 0

\* C9: every returned result whose status is Deliverable has is_valid true,
\* from the pipeline, its exception handler included, and from the DNS-only
\* validator.
C9_DeliverableIsValid ==
    (v_pc = "done" /\ v_result.status = "deliverable") => v_result.is_valid

\* the pipeline returns a Deliverable result after its SMTP stage ran
C9_Witness ==
    /\ v_pc = "done"
    /\ v_caller = "worker"
    /\ h_smtp_ran
    /\ v_result.status = "deliverable"
    /\ v_result.is_valid

\* C10 (as stated): every returned result carries a validation_method, smtp
\* when the SMTP stage ran and dns when it was skipped, and a result whose
\* SMTP stage was skipped and that no stage stopped is Deliverable.
C10_TaggedByMethod ==
    v_pc = "done" =>
        /\ "validation_method" \in DOMAIN v_result.general
        /\ v_result.general.validation_method = (IF h_smtp_ran THEN "smtp" ELSE "dns")
        /\ (~h_smtp_ran /\ ~h_stopped /\ v_caller # "dns")
                => v_result.status = "deliverable"

\* C11: once a catch-all probe for a domain has had its reply, no later
\* validation of an address at that domain starts another catch-all probe
C11_NoSecondProbe ==
    v_pc = "catch_all_session" => Domain(v_email) \notin h_probed

\* C12: a validation of the same email with the same flags as the one before
\* it returns the stored result and runs no stage
C12_RepeatRunsNoStage ==
    h_repeat => h_trace = << >>

\* the result has a status, a risk level and a score of the declared ranges and
\* names a cause: a reason text, or a sub_status when the server's text is empty
WellFormed(result) ==
    /\ result.status \in { "deliverable", "undeliverable", "risky", "unknown" }
    /\ result.is_valid \in BOOLEAN
    /\ result.risk_level \in { "low", "medium", "high" }
    /\ result.deliverability_score \in 0 .. 100
    /\ result.general.reason # "" \/ result.sub_status # "None"

C14_GmailScenario ==
    (/\ v_pc = "done"
     /\ v_email = "user@gmail.com"
     /\ v_flags = Flags(TRUE)
     /\ v_mx_records
     /\ h_rcpt = "250"
     /\ h_synth = "550"
     /\ ~h_stopped)
    => /\ v_result.status = "deliverable"
       /\ v_result.is_valid
       /\ v_result.attributes.free_email
       /\ ~v_result.attributes.catch_all
       /\ v_result.risk_level = "low"

\* the place of a stage in the order Syntax, MX, Attribute, Blacklist, SMTP, Catch-all
Rank(stage) ==
    CASE stage = "syntax" -> 1
      [] stage = "mx" -> 2
      [] stage = "attributes" -> 3
      [] stage = "blacklist" -> 4
      [] stage = "smtp" -> 5
      [] stage = "catch_all" -> 6

\* C15: the stages that run run in the order Syntax, MX, Attribute, Blacklist,
\* SMTP, Catch-all; after a stage has returned the result no stage runs until
\* the next validation; an address that fails the format check is returned
\* Undeliverable / Invalid Email with score 0 after the syntax stage alone
C15_FixedOrderEarlyStop ==
    /\ [][h_trace' # h_trace =>
            \/ h_trace' = << >>
            \/ /\ ~h_stopped
               /\ \E stage \in { "syntax", "mx", "attributes", "blacklist", "smtp", "catch_all" } :
                    /\ h_trace' = Append(h_trace, stage)
                    /\ \A i \in DOMAIN h_trace : Rank(h_trace[i]) < Rank(stage)]_vars
    /\ [](h_stopped => v_pc = "done")
    /\ []((v_pc = "done" /\ v_caller # "dns" /\ ~validate_format(v_email)) =>
            /\ h_trace = << "syntax" >>
            /\ v_result.status = "undeliverable"
            /\ v_result.sub_status = "Invalid Email"
            /\ v_result.deliverability_score = 0)

\* a disposable address was returned by the attribute stage, after the syntax
\* and MX stages and before any blacklist lookup or SMTP session
C15_Witness ==
    /\ v_pc = "done"
    /\ h_stopped
    /\ v_result.sub_status = "Disposable Email"
    /\ h_trace = << "syntax", "mx", "attributes" >>

\* C16: a failure of the shared store never leaves a cache operation as an
\* exception; a read that met the failure returns no cached value, and the
\* store is left as it was by an operation that met the failure (the write is
\* skipped)
C16_SoftFail ==
    /\ [](c_pc # "raised")
    /\ []((c_pc = "returned" /\ h_c_failed # "" /\ c_op.name = "get") => c_ret = "None")
    /\ [][(h_c_failed' # "" /\ h_c_failed = "") => c_store' = c_store]_vars

\* a write of the service met the failure in setex and returned; the key is
\* still absent
C16_Witness ==
    /\ c_program = "service"
    /\ c_pc = "returned"
    /\ h_c_failed = "command"
    /\ c_op.name = "set"
    /\ c_store[c_op.kind] = NoKey

\* the emails of the validate_batch request
RequestEmails == [i \in 1 .. h_req.n |-> i]

\* the messages published for the request are the first ones of its split: one
\* batch each, flags as submitted, batch ids pairwise distinct
PublishedPrefix ==
    LET batches == split_into_batches(RequestEmails) IN
    /\ Len(h_published) <= Len(batches)
    /\ \A i \in 1 .. Len(h_published) :
            /\ h_published[i].emails = batches[i]
            /\ h_published[i].validation_flags = h_req.flags
    /\ \A i, j \in 1 .. Len(h_published) :
            i # j => h_published[i].batchId # h_published[j].batchId

\* all k messages are published and their emails together are the submitted ones
PublishedAll ==
    /\ Len(h_published) = Len(split_into_batches(RequestEmails))
    /\ Flatten([i \in 1 .. Len(h_published) |-> h_published[i].emails]) = RequestEmails

Dispatched == { h_published[i].batchId : i \in 1 .. Len(h_published) }

\* C18: for a request that splits into more than one batch, every batch whose
\* message has been published has its reverse index to the request id, the
\* parent record of the request lists exactly the dispatched batch ids, and a
\* status lookup on the child batch id leads to the parent's aggregate view
C18_ParentAndIndexOfPublished ==
    Len(split_into_batches(RequestEmails)) > 1 =>
        \A child \in Dispatched :
            /\ batch_parent[child] = sub_request_id
            /\ multi_batch[sub_request_id].present
            /\ { multi_batch[sub_request_id].batchIds[i] :
                    i \in DOMAIN multi_batch[sub_request_id].batchIds } = Dispatched
            /\ get_validation_status(child).kind = "redirect"

\* C18, the part that holds: a multi-batch request answered with success has
\* its parent record and the reverse index of every published batch
C18_Tracked ==
    (sub_resp = "ok" /\ Len(h_published) > 1) =>
        /\ multi_batch[sub_request_id].present
        /\ multi_batch[sub_request_id].batchIds =
                [i \in 1 .. Len(h_published) |-> h_published[i].batchId]
        /\ \A child \in Dispatched : batch_parent[child] = sub_request_id

\* C18, the lookup alone: after a multi-batch request was answered with
\* success, a status lookup on a child batch id is a redirect
C18_ChildLookupRedirects ==
    (sub_resp = "ok" /\ Len(h_published) > 1) =>
        \A child \in Dispatched : get_validation_status(child).kind = "redirect"

\* the workers that hold the message with this delivery tag
Holders(tag) == { w \in Workers : w_pc[w] # "idle" /\ w_msg[w].tag = tag }

\* C19: every message handed to a worker is handed over once; it is held by
\* one worker, or acknowledged, or rejected with requeue = false, never two of
\* these; a message whose processing raised is in the dead-letter queue; no
\* email of a message is handed to validate_email a second time
C19_HandledOnce ==
    /\ acked \cap dlq = {}
    /\ \A tag \in Ids :
            /\ h_deliveries[tag] <= 1
            /\ h_deliveries[tag] = 1 =>
                    Cardinality(Holders(tag)) + (IF tag \in acked THEN 1 ELSE 0)
                        + (IF tag \in dlq THEN 1 ELSE 0) = 1
            /\ h_deliveries[tag] = 0 => (tag \notin acked /\ tag \notin dlq)
    /\ h_raised \subseteq dlq
    /\ ~h_twice

\* a message whose emails were validated was rejected after its processing
\* raised, while another message was acknowledged
C19_Witness ==
    /\ \E tag \in h_raised : tag \in dlq /\ h_validated[tag] # {}
    /\ acked # {}

\* C20: a malformed message (body not JSON, no batchId, emails missing or
\* empty) is never acknowledged, and once a worker has received it, it is in
\* the dead-letter queue
C20_MalformedToDlq ==
    \A tag \in h_malformed :
        /\ tag \notin acked
        /\ h_deliveries[tag] >= 1 => tag \in dlq

\* C21: no dead-lettered message has a stored snapshot with isComplete = true,
\* and a status read of its batch id answers processing
C21_DeadLetteredStaysProcessing ==
    \A tag \in dlq :
        /\ ~(validation_results[tag].present /\ validation_results[tag].isComplete)
        /\ get_validation_status(tag).status = "processing"

\* C22: in every returned result risk_level follows deliverability_score with
\* the cutoffs 80 and 60: low from 80, medium from 60 to 79, high below 60
C22_RiskFromScore ==
    (v_pc = "done") =>
        v_result.risk_level =
            (IF v_result.deliverability_score >= 80 THEN "low"
             ELSE IF v_result.deliverability_score >= 60 THEN "medium"
             ELSE "high")

\* C23: the score stored in a returned result is the penalty formula applied to
\* the status and the attributes stored in the same result
C23_StoredScoreIsFormula ==
    (v_pc = "done") =>
        v_result.deliverability_score = calculate_deliverability_score(v_result)

\* C24: a validation whose SMTP session ends with a timeout (of the connection,
\* of a command, or of the whole probe) ends with status Unknown and the
\* breaker's consecutive-failure counter one higher than before
C24_TransportFailureCounts ==
    [][(v_pc = "smtp_session" /\ v_pc' = "done" /\ v_result'.sub_status = "Timeout")
        => /\ v_result'.status = "unknown"
           /\ IntOrZero(smtp_timeout_failures') = IntOrZero(smtp_timeout_failures) + 1]_vars

\* the replies to RCPT TO that reject the address or the transaction
RejectionCodes == RcptCodes \ { "250", "552" }

\* C25: the step that ends a validation with a rejecting reply to RCPT TO
\* leaves the breaker's failure counter, status and last failure time unchanged
C25_RejectionLeavesBreaker ==
    [][(v_pc = "smtp_session" /\ v_pc' = "done" /\ h_rcpt' \in RejectionCodes)
        => UNCHANGED << smtp_timeout_failures, smtp_circuit_status,
                        smtp_last_timeout >>]_vars

\* a validation has ended with the reply 550 while the breaker holds a count
C25_Witness ==
    /\ v_pc = "done"
    /\ h_rcpt = "550"
    /\ v_result.status = "undeliverable"
    /\ v_result.sub_status = "Rejected Email"
    /\ smtp_timeout_failures = 0
    /\ smtp_circuit_status = "closed"

\* C26: an open breaker stays open across every call; its status leaves "open"
\* only in a step that writes status closed together with a failure count of 0
\* (reset), or in the step in which the status key expires
C26_OpenUntilResetOrExpiry ==
    [][(smtp_circuit_status = "open" /\ smtp_circuit_status' # "open")
        => \/ smtp_circuit_status' = "closed" /\ smtp_timeout_failures' = 0
           \/ smtp_circuit_status' = NoKey /\ Expires(ttl_status)]_vars

\* the breaker is still open after a further timeout was recorded, a DNS
\* fallback was counted and get_metrics was read
C26_Witness ==
    /\ smtp_circuit_status = "open"
    /\ smtp_timeout_failures > failure_threshold
    /\ smtp_total_dns_fallbacks_historical > 0
    /\ cb_ret = [call |-> "get_metrics", status |-> "open"]

\* C27: while the failure key lives (each timeout came less than key_expiry
\* after the one before) and its count has reached the threshold with no reset
\* since, the status is open
C27_OpenWhileFailuresContinue ==
    (smtp_timeout_failures # NoCount /\ smtp_timeout_failures >= failure_threshold)
        => smtp_circuit_status = "open"

\* C28: the step in which a worker leaves the end of a batch (after the final
\* snapshot) leaves the breaker reset: failure count 0 and status closed
C28_ResetAtEndOfBatch ==
    [][\A w \in Workers :
        (w_pc[w] = "finish" /\ w_pc'[w] # "finish")
            => smtp_timeout_failures' = 0 /\ smtp_circuit_status' = "closed"]_vars

ValidationStarts == \E t \in ChunkTasks : t_pc[t] # "start" /\ t_pc'[t] = "start"

\* a validation is running
Running == { t \in ChunkTasks : t_pc[t] \notin { "idle", "done" } }

C31_CompleteAfterLastChunk ==
    [][/\ \A id \in Stored :
            validation_results[id].isComplete
                => validation_results'[id] = validation_results[id]
       /\ \A w \in Workers :
            LET id == w_msg[w].batchId IN
            (w_pc[w] \in { "store", "final" }
                    /\ validation_results'[id] # validation_results[id])
                => /\ validation_results'[id].isComplete
                        <=> (w_pc[w] = "final" /\ h_chunks_done[id] = Len(Chunks(w)))
                   /\ (w_pc[w] = "store") => ~validation_results'[id].isComplete]_vars

\* a batch of two chunks or more has its complete snapshot, stored after
\* progress snapshots that recorded results
C31_Witness ==
    \E id \in Stored :
        /\ validation_results[id].isComplete
        /\ h_chunks_done[id] >= 2
        /\ validation_results[id].processedCount > WORKER_BATCH_SIZE

AggregateCompleted(request_id) ==
    \A k \in 1 .. Len(multi_batch[request_id].batchIds) :
        LET batch_status == validation_results[multi_batch[request_id].batchIds[k]] IN
        batch_status.present /\ batch_status.isComplete

C34_StagesRunWhenEnabled ==
    [][/\ (v_pc = "smtp" /\ v_pc' = "smtp_session")
            => /\ v_flags.check_smtp
               /\ smtp_circuit_status # "open"
               /\ v_mx_records
       /\ (v_pc = "catch_all" /\ v_pc' = "catch_all_session")
            => v_flags.check_catch_all /\ v_mx_records
       /\ (v_pc = "mx" /\ ~v_flags.check_mx /\ v_pc' \notin { v_pc, "done" })
            => v_pc' = "attributes" /\ h_trace' = h_trace /\ v_result' = v_result
       /\ (v_pc = "blacklist" /\ ~v_flags.check_blacklist /\ v_pc' \notin { v_pc, "done" })
            => v_pc' = "smtp" /\ h_trace' = h_trace /\ v_result' = v_result
       /\ (v_pc = "smtp" /\ ~v_flags.check_smtp /\ v_pc' \notin { v_pc, "done" })
            => v_pc' = "catch_all" /\ h_trace' = h_trace /\ v_result' = v_result
       /\ (v_pc = "catch_all" /\ ~v_flags.check_catch_all /\ v_pc' \notin { v_pc, "done" })
            => /\ v_pc' = "final"
               /\ h_trace' = h_trace
               /\ v_result'.status = "deliverable"]_vars

\* C35: the step that ends the SMTP stage with a reply to RCPT TO sets the
\* status by the code of the reply alone: 250 passes on to the next stage, 550,
\* 551 and 553 end with Undeliverable, 552 passes on with mailbox_full set, 450,
\* 421 and 451 end with Unknown, and every other code ends with Unknown and the
\* text of the reply as the reason
C35_StatusFromRcptCode ==
    [][(v_pc = "smtp_session" /\ h_rcpt' # h_rcpt)
        => \E message \in RcptMessages :
            CASE h_rcpt' = "250" -> v_pc' = "catch_all"
              [] h_rcpt' \in { "550", "551", "553" } ->
                    v_pc' = "done" /\ v_result'.status = "undeliverable"
              [] h_rcpt' = "552" ->
                    v_pc' = "catch_all" /\ v_result'.attributes.mailbox_full
              [] h_rcpt' \in { "450", "421", "451" } ->
                    v_pc' = "done" /\ v_result'.status = "unknown"
              [] OTHER ->
                    /\ v_pc' = "done"
                    /\ v_result'.status = "unknown"
                    /\ v_result'.general.reason = message]_vars

\* C36: with record_smtp_timeout and reset calls only since the last reset (no
\* open_circuit, no expiry), in every state between two commands of the
\* interleaved calls the status reads open if and only if the count of
\* consecutive failures is at least the threshold
C36_OpenIffAtThreshold ==
    h_commits >= 0 =>
        (MetricsStatus = "open" <=> MetricsConsecutive >= failure_threshold)

\* the breaker is open with more failures counted than the threshold, while a
\* further record_smtp_timeout call is between its reads and its commit
C36_Witness ==
    /\ h_commits > failure_threshold
    /\ smtp_circuit_status = "open"
    /\ smtp_timeout_failures > failure_threshold
    /\ \E p \in Procs : rec_pc[p] = "got_status"

\* the step in which a record_smtp_timeout call of p returns: its EXEC is
\* applied
Returns(p) ==
    rec_pc[p] = "got_status" /\ rec_pc'[p] = "idle" /\ ~watch_dirty[p]

\* C37: the lifetime counter of timeouts grows by one in the step in which a
\* record_smtp_timeout call returns, after a retry or not, and in no other
\* step (reset, open_circuit, record_dns_fallback, is_open, get_metrics, the
\* expiry of keys, a failed EXEC); the step opens the breaker by the count of
\* consecutive failures the call read, whatever the lifetime counter holds
C37_TotalCountsReturns ==
    [][/\ (\E p \in Procs : Returns(p))
            => smtp_total_timeouts_historical' = smtp_total_timeouts_historical + 1
       /\ ~(\E p \in Procs : Returns(p))
            => smtp_total_timeouts_historical' = smtp_total_timeouts_historical
       /\ \A p \in Procs :
            (Returns(p) /\ current_status[p] # "open")
                => (smtp_circuit_status' = "open"
                        <=> current_failures[p] + 1 >= failure_threshold)]_vars

\* a call has returned after a retry: the lifetime counter is ahead of the
\* count of consecutive failures, at or over the threshold, and the breaker
\* is not open
C37_Witness ==
    /\ h_retried
    /\ rec_pc[Recorder] = "idle"
    /\ smtp_total_timeouts_historical >= failure_threshold
    /\ IntOrZero(smtp_timeout_failures) \in 1 .. (failure_threshold - 1)
    /\ smtp_circuit_status # "open"

\* C38 (as stated): with a finite number of callers, each scheduled fairly,
\* every record_smtp_timeout call that has started commits and returns
C38_EveryCallReturns ==
    \A p \in Procs : (rec_pc[p] \in { "watched", "retry" }) ~> (rec_pc[p] = "idle")

\* C38: when the calls of reset and open_circuit come to an end (from some
\* moment on every step is a command of a record_smtp_timeout call), every
\* record_smtp_timeout call that has started commits and returns
C38_RecordReturns ==
    (<>[][rec_pc' # rec_pc]_vars)
        => \A p \in Procs : (rec_pc[p] # "idle") ~> (rec_pc[p] = "idle")

\* after a reset two calls have returned, one of them after a WatchError that
\* the commit of the other caused
C38_Witness ==
    /\ h_retried
    /\ h_commits = 2
    /\ smtp_total_timeouts_historical > h_commits
    /\ \A p \in Procs : rec_pc[p] = "idle"

\* the validations that hold a permit of the SMTP semaphore
PermitHolders == { t \in 1 .. MaxChunkSize : t_pc[t] = "verify" }

\* C39: the free permits of the SMTP semaphore and the validations inside
\* STEP 5 always add up to MAX_CONCURRENT_VALIDATIONS, a validation gives its
\* permit back in the step that ends its STEP 5 whatever the outcome, and
\* whenever no validation of a chunk is running every permit is free
C39_PermitsReturned ==
    /\ [](smtp_semaphore + Cardinality(PermitHolders) = MAX_CONCURRENT_VALIDATIONS)
    /\ []((ck_pc # "gather" \/ \A t \in ChunkTasks : t_pc[t] = "done")
            => smtp_semaphore = MAX_CONCURRENT_VALIDATIONS)
    /\ [][\A t \in ChunkTasks :
            (t_pc[t] = "verify" /\ t_pc'[t] # "verify")
                => smtp_semaphore' = smtp_semaphore + 1]_vars

\* in the second chunk every permit is taken and a validation waits for one,
\* after the validations of the first chunk held permits and finished
C39_Witness ==
    /\ ck_i = 2
    /\ 1 \in ck_stored
    /\ use_smtp
    /\ smtp_semaphore = 0
    /\ \E t \in ChunkTasks : t_pc[t] = "start"

\* C40: a read of the catch-all or the disposable cache that met no failure of
\* the store returns None when the key of the domain does not exist, True
\* when the key was written with true and False when it was written with false
C40_MissIsNone ==
    (/\ c_pc = "returned"
     /\ c_op.name = "get"
     /\ c_op.kind \in { "catch_all", "disposable" }
     /\ c_op.kind \in c_enabled
     /\ h_c_failed = "")
        => c_ret = (CASE c_store[c_op.kind] = NoKey -> "None"
                      [] c_store[c_op.kind] = FlagText("True") -> "True"
                      [] c_store[c_op.kind] = FlagText("False") -> "False")

====
